---------------------------- MODULE Spec2Model ----------------------------
(***************************************************************************)
(* Drip: course building, on-demand lesson generation, citation             *)
(* reconciliation, learner feedback, lesson completion, the daily           *)
(* scheduler and the new-course conversation (server/routes.ts,             *)
(* server/storage.ts, server/perplexity.ts, server/services/scheduler.ts,   *)
(* shared/schema.ts, client/src/pages/lesson.tsx and new-course.tsx).       *)
(*                                                                          *)
(* Spec: the store holds courses, lessons and course_research rows.  One    *)
(* build request creates a course with its lessons, then spawns the         *)
(* research task and the first-lesson pre-generation task.  The lesson page *)
(* fetches one lesson and polls it while it is pending; every fetch that    *)
(* observes the sentinel spawns a background generation task.  A delete     *)
(* request removes the course and, by foreign-key cascade, its lessons and  *)
(* research row.  Every await of the handlers is a separate step, and every *)
(* store call may fail.  LiveSpec is Spec with a working store and fair     *)
(* scheduling.                                                              *)
(*                                                                          *)
(* ResearchSpec: the build, its research task and a delete, with the       *)
(* history of what the research task's calls threw.                         *)
(* BuildSpec: the build request on its own, for every small outline.        *)
(* CiteSpec: one generation task from its research read to its write, with  *)
(* texts as character sequences and the citation map as it is persisted.    *)
(* FbSpec: feedback submissions next to two generation tasks that compose   *)
(* their prompt from the feedback they read.                                *)
(* ConvSpec: the state of the new-course page and its two mutations.        *)
(* FbRaceSpec: two feedback submissions for one lesson in flight together.  *)
(* ExtractSpec: extractJSON applied to small provider texts.                *)
(* PreviewSpec: the new-course page against the preview endpoint, from the  *)
(* provider's answer through extractJSON to the handlers of the page.       *)
(* CompleteSpec: concurrent completions of the lessons of one course.       *)
(* AccessSpec: requests of the owner and of another user to the endpoints   *)
(* that check ownership.                                                    *)
(* SchedulerSpec: services/scheduler.ts against a clock of hours.           *)
(***************************************************************************)
EXTENDS Integers, Sequences, FiniteSets, TLC

\* ------------------------------------------------------------------ bounds
MaxTasks == 1        \* fetch-spawned generation tasks that may exist

\* --------------------------------------------------------------- constants
PENDING_GENERATION == "PENDING_GENERATION"
LEGACY_PLACEHOLDER == "Content will be generated when you reach this lesson."
EmptyContent == ""
Texts == <<"text 0", "text 1", "text 2", "text 3">>  \* text returned to each task's call
Owner == "u1"
NoRow == [none |-> TRUE]          \* undefined: no row matched
NoResp == [status |-> 0]          \* no response sent yet
MaxBuildSessions == 20

PreGen == 0                               \* id of the build-time task
FetchTasks == 1..MaxTasks                 \* ids of the fetch-spawned tasks
TaskIds == {PreGen} \cup FetchTasks
CourseId == 1                             \* serial id of the only course
ResearchId == 1                           \* serial id of its research row

\* one entry of outline.sessions
Session(title, sessionNumber) == [title |-> title, sessionNumber |-> sessionNumber]

\* req.body.outline with the given title, description and sessions
Outline(title, description, sessions) ==
  [title |-> title, description |-> description, sessions |-> sessions]

\* an outline as the preview returns it, with the given sessionNumbers
Titled(ns) == Outline("T", "D", [i \in 1..Len(ns) |-> Session("t", ns[i])])

\* the outlines of the build request
Outlines == {Titled(<<1>>), Titled(<<2, 1>>), Titled(<<2>>), Titled(<<0>>)}
LessonPages == {1, 2}                     \* lesson ids the page may be opened on

VARIABLES
  courses,        \* course id -> row of table courses
  lessons,        \* lesson id -> row of table lessons
  research,       \* research id -> row of table course_research
  lessonSeq,      \* last value of the serial lessons.id
  outline,        \* req.body.outline of the build request
  perplexityKey,  \* process.env.PERPLEXITY_API_KEY is set
  clientLesson,   \* lessonId in the url of the lesson page
  build,          \* POST /api/courses/build in progress
  del,            \* DELETE /api/courses/:id in progress
  req,            \* GET /api/lessons/:id in flight (react-query runs one at a time)
  client,         \* query.state.data of the lesson page
  task,           \* lesson generation tasks (detached async functions)
  rtask,          \* research task (detached async function)
  hostUp,         \* FALSE once a rejection escaped a detached task
  \* citation reconciliation of one generation task
  citeRow,        \* the course's row of course_research, with its citations
  citeTask,       \* the generation task: its locals and position
  citeLesson,     \* content and citation_map of the task's lesson
  \* learner feedback and the prompts composed from it
  lessonFeedback, \* rows of table lesson_feedback of the course
  userFeedback,   \* lessons.user_feedback of the lesson
  fbReq,          \* POST /api/lessons/:id/feedback in progress
  fbTask,         \* generation tasks: the feedback they read, their prompt
  \* the new-course page
  conv,           \* React state of NewCoursePage
  previewReq,     \* previewMutation in flight
  buildReq,       \* buildMutation in flight
  preview,        \* POST /api/courses/preview: the provider's answer and the response
  \* history of the research task, recorded by ResearchSpec only
  researchLog,    \* whether conductDeepResearch threw, whether the catch block threw
  \* extractJSON on its own
  providerText,   \* the argument of extractJSON
  extracted,      \* what the call returned or threw
  \* POST /api/lessons/:id/complete
  lessonProgress, \* rows of table lesson_progress, by id
  courseCompleted,\* courses.is_completed of the course
  complete,       \* the requests in progress
  \* the ownership checks of the lesson and course endpoints
  access,         \* requests of any user in progress
  effects,        \* what handlers did after their ownership check
  \* services/scheduler.ts
  clock,          \* the day and the hour of the local time
  schedulerInterval, \* the timer of startScheduler, or Null
  runsToday,      \* calls of runDailyLessonGeneration on the current day
  dueToday,       \* the scheduler was running when the current day reached 5:00
  \* a second POST /api/lessons/:id/feedback
  fbParked        \* the feedback request that is waiting while fbReq takes its step

extract == <<providerText, extracted>>
completion == <<lessonProgress, courseCompleted, complete>>
accessing == <<access, effects>>
scheduling == <<clock, schedulerInterval, runsToday, dueToday>>
periphery == <<extract, completion, accessing, scheduling, fbParked>>
main == <<courses, lessons, research, lessonSeq, outline, perplexityKey,
          clientLesson, build, del, req, client, task, rtask, hostUp, researchLog,
          periphery>>
cite == <<citeRow, citeTask, citeLesson>>
fb == <<lessonFeedback, userFeedback, fbReq, fbTask>>
dialog == <<conv, previewReq, buildReq, preview>>
rest == <<cite, fb, dialog, periphery>>
base == <<courses, lessons, research, lessonSeq, outline, perplexityKey,
          clientLesson, build, del, req, client, task, rtask, hostUp, researchLog,
          cite, fb, dialog>>
others == <<rest, researchLog>>
vars == <<main, rest>>

store == <<courses, lessons, research, lessonSeq>>
env == <<outline, perplexityKey, clientLesson>>

\* ----------------------------------------------------------------- helpers
Restrict(f, S) == [x \in S |-> f[x]]

Put(f, k, v) == [x \in DOMAIN f \cup {k} |-> IF x = k THEN v ELSE f[x]]

IsRow(r) == r # NoRow

\* storage.getLesson / getCourse: the row with that id, or undefined
GetLesson(id) == IF id \in DOMAIN lessons THEN lessons[id] ELSE NoRow

GetCourse(id) == IF id \in DOMAIN courses THEN courses[id] ELSE NoRow

\* storage.getCourseResearch: the first research row of the course, or undefined
GetCourseResearch(courseId) ==
  LET ids == {r \in DOMAIN research : research[r].courseId = courseId}
  IN  IF ids = {} THEN NoRow
      ELSE LET m == CHOOSE r \in ids : \A q \in ids : r <= q
           IN  [id |-> m, status |-> research[m].status]

\* variant: the update is an upsert, which inserts the row when it is missing
UpdateLesson_Upsert(ls, id, content, citationMap) ==
  Put(ls, id, [courseId |-> CourseId, sessionNumber |-> 1,
               content |-> content, citationMap |-> citationMap])

\* storage.updateLesson: UPDATE lessons SET content, citationMap WHERE id = ...
\* A missing row matches nothing and raises nothing.
UpdateLesson(ls, id, content, citationMap) ==
  IF id \in DOMAIN ls
    THEN [ls EXCEPT ![id].content = content, ![id].citationMap = citationMap]
    ELSE ls

\* storage.updateCourseResearch: UPDATE course_research SET ... WHERE id = ...
UpdateCourseResearch(rs, id, status, errorMessage) ==
  IF id \in DOMAIN rs
    THEN [rs EXCEPT ![id].status = status, ![id].errorMessage = errorMessage]
    ELSE rs

\* needsGeneration of GET /api/lessons/:id, and the re-check of its task
NeedsGeneration(content) ==
  content = PENDING_GENERATION \/ content = LEGACY_PLACEHOLDER

\* the check of the pre-generation task
PreGenPending(content) == content = PENDING_GENERATION

\* !x of JavaScript for a string, and for a number
FalsyString(x) == x = ""

FalsyNumber(x) == x = 0

\* build-time validation of the outline: title, description, the number of
\* sessions, and each session's title and sessionNumber
ValidOutline(o) ==
  /\ ~FalsyString(o.title)
  /\ ~FalsyString(o.description)
  /\ Len(o.sessions) >= 1
  /\ Len(o.sessions) <= MaxBuildSessions
  /\ \A i \in 1..Len(o.sessions) :
       ~FalsyString(o.sessions[i].title) /\ ~FalsyNumber(o.sessions[i].sessionNumber)

\* ------------------------------------------------------------------- Init
IdleTask == [pc |-> "unspawned", lessonId |-> 0, courseId |-> 0,
             called |-> FALSE, got |-> "none", content |-> EmptyContent,
             sawResearch |-> FALSE, wrote |-> FALSE, err |-> FALSE]

IdleResearchTask == [pc |-> "unspawned", id |-> 0, calls |-> 0, err |-> FALSE]

\* null of JavaScript and of a nullable column
Null == [null |-> TRUE]

\* the citation task before it is spawned; its lesson as the build created it
IdleCiteTask == [pc |-> "unspawned", path |-> "fetch", research |-> NoRow,
                 researchCitations |-> <<>>, sources |-> <<>>, content |-> <<>>]

NewCiteLesson == [written |-> FALSE, content |-> <<>>, citationMap |-> Null]

CiteIdle == citeRow = NoRow /\ citeTask = IdleCiteTask /\ citeLesson = NewCiteLesson

\* feedback: an empty table, no request, no task
FbTaskIds == {1, 2}

IdleFbReq == [pc |-> "idle", feedback |-> "", resp |-> NoResp]

IdleFbTask == [pc |-> "unspawned", feedbackContext |-> <<>>, prompt |-> Null,
               result |-> Null]

FbIdle ==
  /\ lessonFeedback = {} /\ userFeedback = Null
  /\ fbReq = IdleFbReq /\ fbTask = [t \in FbTaskIds |-> IdleFbTask]

\* one entry of the messages of NewCoursePage
Message(role, content, o) == [role |-> role, content |-> content, outline |-> o]

\* useState initial values of NewCoursePage, and no mutation in flight
InitialConv ==
  [messages |-> <<Message("assistant", "What topic do you want to learn about?", Null)>>,
   isGenerating |-> FALSE, isBuilding |-> FALSE, currentOutline |-> Null,
   originalTopic |-> "", conversationHistory |-> <<>>, page |-> "new-course"]

\* no preview request is being served
IdlePreview == [pc |-> "idle"]

DialogIdle ==
  conv = InitialConv /\ previewReq = Null /\ buildReq = Null /\ preview = IdlePreview

\* extractJSON has not been called
ExtractIdle == providerText = <<>> /\ extracted = Null

\* completion: an empty table, the course not completed, no request
MaxCompletes == 2    \* completion requests that may be made
TotalLessons == 2    \* lessons of the course

CompleteIds == 1..MaxCompletes

IdleComplete == [pc |-> "idle", lessonId |-> 0, existing |-> NoRow,
                 completedCount |-> 0, resp |-> NoResp]

CompletionIdle ==
  /\ lessonProgress = <<>> /\ courseCompleted = FALSE
  /\ complete = [c \in CompleteIds |-> IdleComplete]

\* no request of the lesson and course endpoints
MaxRequests == 2     \* requests to the lesson and course endpoints

AccessIds == 1..MaxRequests

IdleAccess == [pc |-> "idle", endpoint |-> "", userId |-> "", course |-> NoRow,
               resp |-> NoResp]

AccessIdle == access = [a \in AccessIds |-> IdleAccess] /\ effects = {}

\* the scheduler has not been started
SchedulerIdle ==
  /\ clock = [day |-> 1, hour |-> 0] /\ schedulerInterval = Null
  /\ runsToday = 0 /\ dueToday = FALSE

ServicesIdle == CompletionIdle /\ AccessIdle /\ SchedulerIdle /\ fbParked = IdleFbReq

PeripheryIdle == ExtractIdle /\ ServicesIdle

\* nothing has thrown yet
QuietLog == [callFailed |-> FALSE, catchErr |-> FALSE]

\* the store, the requests and the tasks before anything has run
Idle ==
  /\ researchLog = QuietLog
  /\ courses = <<>>
  /\ lessons = <<>>
  /\ research = <<>>
  /\ lessonSeq = 0
  /\ build = [pc |-> "idle", i |-> 1, firstLessonId |-> 0, resp |-> NoResp]
  /\ del = [pc |-> "idle", resp |-> NoResp]
  /\ req = [pc |-> "idle", lesson |-> NoRow, resp |-> NoResp]
  /\ client = [data |-> "none", content |-> EmptyContent]
  /\ task = [t \in TaskIds |-> IdleTask]
  /\ rtask = IdleResearchTask
  /\ hostUp = TRUE

Init ==
  /\ Idle
  /\ outline \in Outlines
  /\ perplexityKey \in BOOLEAN
  /\ clientLesson \in LessonPages
  /\ CiteIdle /\ FbIdle /\ DialogIdle /\ PeripheryIdle

\* --------------------------------------------- POST /api/courses/build
\* variant: totalLessons counts one lesson more than the outline has
NewCourse_OneMore(o) ==
  [userId |-> Owner, totalLessons |-> Len(o.sessions) + 1, isCompleted |-> FALSE]

\* the row of storage.createCourse
NewCourse(o) ==
  [userId |-> Owner, totalLessons |-> Len(o.sessions), isCompleted |-> FALSE]

\* validation, then storage.createCourse
BuildCreateCourse(ok) ==
  /\ hostUp /\ build.pc = "idle"
  /\ UNCHANGED <<others, lessons, research, lessonSeq, env, del, req, client, task, rtask, hostUp>>
  /\ IF ~ValidOutline(outline)
       THEN /\ build' = [build EXCEPT !.pc = "done", !.resp = [status |-> 400]]
            /\ UNCHANGED courses
       ELSE IF ok
         THEN /\ courses' = Put(courses, CourseId, NewCourse(outline))
              /\ build' = [build EXCEPT !.pc = "createLesson"]
         ELSE /\ UNCHANGED courses
              /\ build' = [build EXCEPT !.pc = "done", !.resp = [status |-> 500]]

\* one iteration of the loop over outline.sessions: storage.createLesson
BuildCreateLesson(ok) ==
  /\ hostUp /\ build.pc = "createLesson"
  /\ UNCHANGED <<others, courses, research, env, del, req, client, task, rtask, hostUp>>
  /\ IF ok /\ CourseId \in DOMAIN courses   \* foreign key lessons.course_id
       THEN /\ lessonSeq' = lessonSeq + 1
            /\ lessons' = Put(lessons, lessonSeq + 1,
                  [courseId |-> CourseId,
                   sessionNumber |-> outline.sessions[build.i].sessionNumber,
                   content |-> PENDING_GENERATION, citationMap |-> FALSE])
            /\ build' = [build EXCEPT
                  !.i = @ + 1,
                  !.firstLessonId = IF outline.sessions[build.i].sessionNumber = 1
                                      THEN lessonSeq + 1 ELSE @,
                  !.pc = IF build.i = Len(outline.sessions) THEN "spawn" ELSE @]
       ELSE /\ UNCHANGED <<lessons, lessonSeq>>
            /\ build' = [build EXCEPT !.pc = "done", !.resp = [status |-> 500]]

\* after the loop: both detached tasks run up to their first await, then
\* res.json(course)
BuildSpawn ==
  /\ hostUp /\ build.pc = "spawn"
  /\ UNCHANGED <<others, store, env, del, req, client, hostUp>>
  /\ rtask' = IF perplexityKey THEN [rtask EXCEPT !.pc = "create"] ELSE rtask
  /\ task' = IF build.firstLessonId # 0
               THEN [task EXCEPT ![PreGen] = [IdleTask EXCEPT
                       !.pc = "check", !.lessonId = build.firstLessonId,
                       !.courseId = CourseId]]
               ELSE task
  /\ build' = [build EXCEPT !.pc = "done", !.resp = [status |-> 200]]

\* ------------------------------------------------ GET /api/lessons/:id
PendingResp == [status |-> 200, content |-> PENDING_GENERATION, isGenerating |-> TRUE]

ContentResp(c) == [status |-> 200, content |-> c, isGenerating |-> FALSE]

ErrorResp(code) == [status |-> code, content |-> EmptyContent, isGenerating |-> FALSE]

\* variant: the page never polls
ShouldPoll_Never(data) == FALSE

\* refetchInterval of the lesson page: poll while the data is pending
ShouldPoll(data) == data = "pending"

\* query.state.data after a response: a failed refetch keeps the previous data
Received(c, resp) ==
  IF resp.status = 200
    THEN [data |-> IF resp.content = PENDING_GENERATION \/ resp.isGenerating
                     THEN "pending" ELSE "ready",
          content |-> resp.content]
    ELSE IF c.data = "none" THEN [c EXCEPT !.data = "error"] ELSE c

FreeTasks == {t \in FetchTasks : task[t].pc = "unspawned"}

\* the page issues a fetch (first load, or a poll) and the handler runs
\* storage.getLesson
FetchRead(ok) ==
  /\ hostUp /\ req.pc \in {"idle", "done"}
  /\ (client.data = "none" \/ ShouldPoll(client.data))
  /\ IF IsRow(GetLesson(clientLesson))
       THEN NeedsGeneration(GetLesson(clientLesson).content) => FreeTasks # {}
       ELSE TRUE
  /\ UNCHANGED <<others, store, env, build, del, task, rtask, hostUp>>
  /\ LET lesson == GetLesson(clientLesson) IN
     IF ~ok
       THEN /\ req' = [pc |-> "done", lesson |-> NoRow, resp |-> ErrorResp(500)]
            /\ client' = Received(client, ErrorResp(500))
       ELSE IF ~IsRow(lesson)
         THEN /\ req' = [pc |-> "done", lesson |-> NoRow, resp |-> ErrorResp(404)]
              /\ client' = Received(client, ErrorResp(404))
         ELSE /\ req' = [pc |-> "read", lesson |-> lesson, resp |-> NoResp]
              /\ UNCHANGED client

\* variant: the handler awaits the generation before it responds, so the
\* provider call of the task has returned when the response is sent
FetchRespond_Awaits(ok) ==
  /\ hostUp /\ req.pc = "read"
  /\ UNCHANGED <<others, store, env, build, del, rtask, hostUp>>
  /\ LET course == GetCourse(req.lesson.courseId)
         resp == IF ~ok THEN ErrorResp(500)
                 ELSE IF ~IsRow(course) \/ course.userId # Owner THEN ErrorResp(403)
                 ELSE IF NeedsGeneration(req.lesson.content) THEN PendingResp
                 ELSE ContentResp(req.lesson.content)
         t == CHOOSE x \in FreeTasks : \A y \in FreeTasks : x <= y
     IN  /\ req' = [req EXCEPT !.pc = "done", !.resp = resp]
         /\ client' = Received(client, resp)
         /\ task' = IF resp = PendingResp
                      THEN [task EXCEPT ![t] = [IdleTask EXCEPT
                              !.pc = "write", !.lessonId = clientLesson,
                              !.courseId = req.lesson.courseId, !.called = TRUE,
                              !.got = "text", !.content = Texts[t + 1]]]
                      ELSE task

\* storage.getCourse and the later reads, the ownership check, the response,
\* and for a pending lesson the detached task up to its first await
FetchRespond(ok) ==
  /\ hostUp /\ req.pc = "read"
  /\ UNCHANGED <<others, store, env, build, del, rtask, hostUp>>
  /\ LET course == GetCourse(req.lesson.courseId)
         resp == IF ~ok THEN ErrorResp(500)
                 ELSE IF ~IsRow(course) \/ course.userId # Owner THEN ErrorResp(403)
                 ELSE IF NeedsGeneration(req.lesson.content) THEN PendingResp
                 ELSE ContentResp(req.lesson.content)
         t == CHOOSE x \in FreeTasks : \A y \in FreeTasks : x <= y
     IN  /\ req' = [req EXCEPT !.pc = "done", !.resp = resp]
         /\ client' = Received(client, resp)
         /\ task' = IF resp = PendingResp
                      THEN [task EXCEPT ![t] = [IdleTask EXCEPT
                              !.pc = "check", !.lessonId = clientLesson,
                              !.courseId = req.lesson.courseId]]
                      ELSE task

\* ------------------------------------------- lesson generation tasks
\* where an error thrown at an await of the task body lands
LessonTaskHandler(site) == "task_catch"

\* a finished task keeps what it did (called, wrote, err, a provider error);
\* its locals are gone
Finished(t, wrote, err, got) ==
  [IdleTask EXCEPT !.pc = "done", !.lessonId = task[t].lessonId,
                   !.courseId = task[t].courseId, !.called = task[t].called,
                   !.wrote = wrote, !.err = err, !.got = got]

\* variant: the catch block starts the task over
Thrown_Retry(t, site) ==
  /\ task' = [task EXCEPT ![t].pc = "check", ![t].err = TRUE,
                 ![t].got = IF site = "messages.create" THEN "error" ELSE "none"]
  /\ hostUp' = TRUE

Thrown(t, site) ==
  /\ task' = [task EXCEPT ![t] = Finished(t, FALSE, TRUE,
                 IF site = "messages.create" THEN "error" ELSE "none")]
  /\ hostUp' = (LessonTaskHandler(site) = "task_catch")

\* variant: the task never re-checks the content and always generates
SkipsGeneration_Never(t, lesson) == FALSE

\* the start-of-task check: TRUE when the task returns without generating
SkipsGeneration(t, lesson) ==
  IF t = PreGen
    THEN ~IsRow(lesson) \/ ~PreGenPending(lesson.content)
    ELSE IsRow(lesson) /\ ~NeedsGeneration(lesson.content)

\* storage.getLesson at the start of the task
TaskCheck(t, ok) ==
  /\ hostUp /\ task[t].pc = "check"
  /\ UNCHANGED <<others, store, env, build, del, req, client, rtask>>
  /\ IF ~ok THEN Thrown(t, "getLesson")
     ELSE /\ UNCHANGED hostUp
          /\ task' = [task EXCEPT ![t] =
               IF SkipsGeneration(t, GetLesson(task[t].lessonId))
                 THEN Finished(t, FALSE, FALSE, "none")
                 ELSE [@ EXCEPT !.pc = IF t = PreGen THEN "research" ELSE "feedback"]]

\* storage.getFeedbackByCourse (fetch-spawned task only)
TaskFeedback(t, ok) ==
  /\ hostUp /\ task[t].pc = "feedback"
  /\ UNCHANGED <<others, store, env, build, del, req, client, rtask>>
  /\ IF ~ok THEN Thrown(t, "getFeedbackByCourse")
     ELSE /\ UNCHANGED hostUp
          /\ task' = [task EXCEPT ![t].pc = "research"]

\* storage.getCourseResearch, then anthropic.messages.create is issued
TaskResearch(t, ok) ==
  /\ hostUp /\ task[t].pc = "research"
  /\ UNCHANGED <<others, store, env, build, del, req, client, rtask>>
  /\ IF ~ok THEN Thrown(t, "getCourseResearch")
     ELSE LET r == GetCourseResearch(task[t].courseId) IN
          /\ UNCHANGED hostUp
          /\ task' = [task EXCEPT
               ![t].pc = "calling", ![t].called = TRUE,
               ![t].sawResearch = IsRow(r) /\ r.status = "completed"]

\* content of the response: the text of the first block, or "" when the
\* first block is not text
ExtractContent(out, text) == IF out = "text" THEN text ELSE EmptyContent

\* the provider call returns text, a non-text first block, or fails
ProviderReturn(t) ==
  /\ hostUp /\ task[t].pc = "calling"
  /\ UNCHANGED <<others, store, env, build, del, req, client, rtask>>
  /\ \E out \in {"text", "nontext", "error"} :
       IF out = "error"
         THEN Thrown(t, "messages.create")
         ELSE /\ UNCHANGED hostUp
              /\ task' = [task EXCEPT ![t].pc = "write", ![t].got = out,
                                      ![t].content = ExtractContent(out, Texts[t + 1])]

\* the [N] markers of a text (the provider may cite when it saw sources)
HasMarker(text) == text \in {Texts[1], Texts[2]}

\* citationMap of the write: null (FALSE) without completed research or markers
CitationMapOf(t) == task[t].sawResearch /\ HasMarker(task[t].content)

\* storage.updateLesson(lessonId, {content, citationMap})
TaskWrite(t, ok) ==
  /\ hostUp /\ task[t].pc = "write"
  /\ UNCHANGED <<others, courses, research, lessonSeq, env, build, del, req, client, rtask>>
  /\ IF ~ok THEN Thrown(t, "updateLesson") /\ UNCHANGED lessons
     ELSE /\ UNCHANGED hostUp
          /\ lessons' = UpdateLesson(lessons, task[t].lessonId, task[t].content,
                                     CitationMapOf(t))
          /\ task' = [task EXCEPT ![t] =
               Finished(t, task[t].lessonId \in DOMAIN lessons, FALSE, "none")]

\* --------------------------------------------------- research task
\* variant: the catch block records the failure without a try of its own
ResearchTaskHandler_NoInnerTry(site) ==
  IF site \in {"createCourseResearch", "toGenerating", "conductDeepResearch", "toCompleted"}
    THEN "outer_catch"
    ELSE "unhandled"

\* where an error thrown at an await of the research task lands: the try
\* block is caught by the outer catch, which tries to record the failure in
\* a try of its own
ResearchTaskHandler(site) ==
  IF site \in {"createCourseResearch", "toGenerating", "conductDeepResearch", "toCompleted"}
    THEN "outer_catch"
    ELSE "inner_catch"

ResearchThrown(site) ==
  LET h == ResearchTaskHandler(site) IN
  /\ rtask' = [rtask EXCEPT !.err = TRUE,
                 !.pc = IF h = "outer_catch" THEN "recover" ELSE "done"]
  /\ hostUp' = (h \in {"outer_catch", "inner_catch"})

\* storage.createCourseResearch({courseId, status: "pending", ...})
ResearchCreate(ok) ==
  /\ hostUp /\ rtask.pc = "create"
  /\ UNCHANGED <<rest, courses, lessons, lessonSeq, env, build, del, req, client, task>>
  /\ IF ok /\ CourseId \in DOMAIN courses   \* foreign key course_research.course_id
       THEN /\ research' = Put(research, ResearchId,
                  [courseId |-> CourseId, status |-> "pending", errorMessage |-> FALSE])
            /\ rtask' = [rtask EXCEPT !.pc = "toGenerating", !.id = ResearchId]
            /\ UNCHANGED hostUp
       ELSE ResearchThrown("createCourseResearch") /\ UNCHANGED research

\* storage.updateCourseResearch(research.id, {status: "generating"}), then
\* conductDeepResearch is issued
ResearchGenerating(ok) ==
  /\ hostUp /\ rtask.pc = "toGenerating"
  /\ UNCHANGED <<rest, courses, lessons, lessonSeq, env, build, del, req, client, task>>
  /\ IF ok
       THEN /\ research' = UpdateCourseResearch(research, rtask.id, "generating", FALSE)
            /\ rtask' = [rtask EXCEPT !.pc = "researching", !.calls = @ + 1]
            /\ UNCHANGED hostUp
       ELSE ResearchThrown("toGenerating") /\ UNCHANGED research

\* conductDeepResearch returns, fails or times out
ResearchReturn ==
  /\ hostUp /\ rtask.pc = "researching"
  /\ UNCHANGED <<rest, store, env, build, del, req, client, task>>
  /\ \E returned \in BOOLEAN :
       IF returned
         THEN rtask' = [rtask EXCEPT !.pc = "toCompleted"] /\ UNCHANGED hostUp
         ELSE ResearchThrown("conductDeepResearch")

\* storage.updateCourseResearch(research.id, {status: "completed", ...})
ResearchCompleted(ok) ==
  /\ hostUp /\ rtask.pc = "toCompleted"
  /\ UNCHANGED <<rest, courses, lessons, lessonSeq, env, build, del, req, client, task>>
  /\ IF ok
       THEN /\ research' = UpdateCourseResearch(research, rtask.id, "completed", FALSE)
            /\ rtask' = [rtask EXCEPT !.pc = "done"]
            /\ UNCHANGED hostUp
       ELSE ResearchThrown("toCompleted") /\ UNCHANGED research

\* the catch block: storage.getCourseResearch(courseId)
ResearchRecover(ok) ==
  /\ hostUp /\ rtask.pc = "recover"
  /\ UNCHANGED <<rest, store, env, build, del, req, client, task>>
  /\ IF ok
       THEN LET existing == GetCourseResearch(CourseId) IN
            /\ rtask' = IF IsRow(existing)
                          THEN [rtask EXCEPT !.pc = "markFailed", !.id = existing.id]
                          ELSE [rtask EXCEPT !.pc = "done"]
            /\ UNCHANGED hostUp
       ELSE ResearchThrown("catch.getCourseResearch")

\* variant: the catch block sets the status without the message
FailureRecord_NoMessage == [status |-> "failed", errorMessage |-> FALSE]

\* what the catch block records: status "failed" and the error's message
FailureRecord == [status |-> "failed", errorMessage |-> TRUE]

\* the catch block: storage.updateCourseResearch(existing.id, {status: "failed", errorMessage})
ResearchMarkFailed(ok) ==
  /\ hostUp /\ rtask.pc = "markFailed"
  /\ UNCHANGED <<rest, courses, lessons, lessonSeq, env, build, del, req, client, task>>
  /\ IF ok
       THEN /\ research' = UpdateCourseResearch(research, rtask.id, FailureRecord.status,
                                                  FailureRecord.errorMessage)
            /\ rtask' = [rtask EXCEPT !.pc = "done"]
            /\ UNCHANGED hostUp
       ELSE ResearchThrown("catch.updateCourseResearch") /\ UNCHANGED research

\* ---------------------------------------------- DELETE /api/courses/:id
\* storage.getCourse and the ownership check
DeleteRead(ok) ==
  /\ hostUp /\ del.pc = "idle"
  /\ build.pc # "idle"
  /\ UNCHANGED <<others, store, env, build, req, client, task, rtask, hostUp>>
  /\ LET course == GetCourse(CourseId) IN
     del' = IF ~ok THEN [pc |-> "done", resp |-> [status |-> 500]]
            ELSE IF ~IsRow(course) THEN [pc |-> "done", resp |-> [status |-> 404]]
            ELSE IF course.userId # Owner THEN [pc |-> "done", resp |-> [status |-> 403]]
            ELSE [del EXCEPT !.pc = "delete"]

\* DELETE FROM courses WHERE id = ...: lessons.course_id and
\* course_research.course_id are declared onDelete cascade
DeleteCascade(id) ==
  /\ courses' = Restrict(courses, DOMAIN courses \ {id})
  /\ lessons' = Restrict(lessons, {l \in DOMAIN lessons : lessons[l].courseId # id})
  /\ research' = Restrict(research, {r \in DOMAIN research : research[r].courseId # id})

\* storage.deleteCourse and the response
DeleteCourse(ok) ==
  /\ hostUp /\ del.pc = "delete"
  /\ UNCHANGED <<others, lessonSeq, env, build, req, client, task, rtask, hostUp>>
  /\ IF ok
       THEN /\ DeleteCascade(CourseId)
            /\ del' = [pc |-> "done", resp |-> [status |-> 200]]
       ELSE /\ UNCHANGED <<courses, lessons, research>>
            /\ del' = [pc |-> "done", resp |-> [status |-> 500]]

\* the store call of a step succeeds or fails
Next ==
  \/ \E ok \in BOOLEAN : BuildCreateCourse(ok)
  \/ \E ok \in BOOLEAN : BuildCreateLesson(ok)
  \/ BuildSpawn
  \/ \E ok \in BOOLEAN : FetchRead(ok)
  \/ \E ok \in BOOLEAN : FetchRespond(ok)
  \/ \E t \in TaskIds, ok \in BOOLEAN : TaskCheck(t, ok)
  \/ \E t \in TaskIds, ok \in BOOLEAN : TaskFeedback(t, ok)
  \/ \E t \in TaskIds, ok \in BOOLEAN : TaskResearch(t, ok)
  \/ \E t \in TaskIds : ProviderReturn(t)
  \/ \E t \in TaskIds, ok \in BOOLEAN : TaskWrite(t, ok)
  \/ \E ok \in BOOLEAN : ResearchCreate(ok) /\ UNCHANGED researchLog
  \/ \E ok \in BOOLEAN : ResearchGenerating(ok) /\ UNCHANGED researchLog
  \/ ResearchReturn /\ UNCHANGED researchLog
  \/ \E ok \in BOOLEAN : ResearchCompleted(ok) /\ UNCHANGED researchLog
  \/ \E ok \in BOOLEAN : ResearchRecover(ok) /\ UNCHANGED researchLog
  \/ \E ok \in BOOLEAN : ResearchMarkFailed(ok) /\ UNCHANGED researchLog
  \/ \E ok \in BOOLEAN : DeleteRead(ok)
  \/ \E ok \in BOOLEAN : DeleteCourse(ok)

Spec == Init /\ [][Next]_vars

\* The same program while every store call succeeds and nobody deletes the
\* course.  The event loop runs every continuation that is ready, and the
\* page's timer fires while the data is pending.
NextLive ==
  \/ BuildCreateCourse(TRUE)
  \/ BuildCreateLesson(TRUE)
  \/ BuildSpawn
  \/ FetchRead(TRUE)
  \/ FetchRespond(TRUE)
  \/ \E t \in TaskIds : TaskCheck(t, TRUE)
  \/ \E t \in TaskIds : TaskFeedback(t, TRUE)
  \/ \E t \in TaskIds : TaskResearch(t, TRUE)
  \/ \E t \in TaskIds : ProviderReturn(t)
  \/ \E t \in TaskIds : TaskWrite(t, TRUE)
  \/ ResearchCreate(TRUE) /\ UNCHANGED researchLog
  \/ ResearchGenerating(TRUE) /\ UNCHANGED researchLog
  \/ ResearchReturn /\ UNCHANGED researchLog
  \/ ResearchCompleted(TRUE) /\ UNCHANGED researchLog
  \/ ResearchRecover(TRUE) /\ UNCHANGED researchLog
  \/ ResearchMarkFailed(TRUE) /\ UNCHANGED researchLog

TaskStep(t) ==
  \/ TaskCheck(t, TRUE)
  \/ TaskFeedback(t, TRUE)
  \/ TaskResearch(t, TRUE)
  \/ ProviderReturn(t)
  \/ TaskWrite(t, TRUE)

Fairness ==
  /\ WF_vars(FetchRead(TRUE))
  /\ WF_vars(FetchRespond(TRUE))
  /\ \A t \in TaskIds : WF_vars(TaskStep(t))

LiveSpec == Init /\ [][NextLive]_vars /\ Fairness

\* ------------------------------- the research task with its history
\* conductDeepResearch returns, or throws into the catch block
LoggedResearchReturn ==
  /\ ResearchReturn
  /\ researchLog' = [researchLog EXCEPT !.callFailed = rtask'.pc = "recover"]

\* a store call of the catch block: when it throws, the inner catch only
\* reports "Failed to update research status"
LoggedResearchRecover(ok) ==
  /\ ResearchRecover(ok)
  /\ researchLog' = [researchLog EXCEPT !.catchErr = ~ok]

LoggedResearchMarkFailed(ok) ==
  /\ ResearchMarkFailed(ok)
  /\ researchLog' = [researchLog EXCEPT !.catchErr = ~ok]

\* the build, its research task and a delete of the course
ResearchNext ==
  \/ \E ok \in BOOLEAN : BuildCreateCourse(ok)
  \/ \E ok \in BOOLEAN : BuildCreateLesson(ok)
  \/ BuildSpawn
  \/ \E ok \in BOOLEAN : ResearchCreate(ok) /\ UNCHANGED researchLog
  \/ \E ok \in BOOLEAN : ResearchGenerating(ok) /\ UNCHANGED researchLog
  \/ LoggedResearchReturn
  \/ \E ok \in BOOLEAN : ResearchCompleted(ok) /\ UNCHANGED researchLog
  \/ \E ok \in BOOLEAN : LoggedResearchRecover(ok)
  \/ \E ok \in BOOLEAN : LoggedResearchMarkFailed(ok)
  \/ \E ok \in BOOLEAN : DeleteRead(ok)
  \/ \E ok \in BOOLEAN : DeleteCourse(ok)

ResearchSpec == Init /\ [][ResearchNext]_vars

\* --------------------------------------- the build request on its own
MaxSessions == 2     \* sessions of the outlines enumerated entry by entry

\* the sessions a client may send: with or without a title, and any number
SessionChoices ==
  {Session(title, n) : title \in {"", "t"}, n \in {-1, 0} \cup 1..(MaxSessions + 1)}

\* the sessionNumbers 1..n in order
Counting(n) == [i \in 1..n |-> i]

\* the outlines of the build request: every outline of up to MaxSessions
\* sessions, outlines without title or description, and the outlines with
\* the largest accepted and the smallest rejected number of sessions
BuildOutlines ==
  {Outline("T", "D", ss) : ss \in UNION {[1..n -> SessionChoices] : n \in 0..MaxSessions}}
    \cup {Outline("", "D", <<Session("t", 1)>>), Outline("T", "", <<Session("t", 1)>>)}
    \cup {Titled(Counting(MaxBuildSessions)), Titled(Counting(MaxBuildSessions + 1))}

BuildInit ==
  /\ Idle
  /\ outline \in BuildOutlines
  /\ perplexityKey \in BOOLEAN
  /\ clientLesson = 1
  /\ CiteIdle /\ FbIdle /\ DialogIdle /\ PeripheryIdle

BuildNext ==
  \/ \E ok \in BOOLEAN : BuildCreateCourse(ok)
  \/ \E ok \in BOOLEAN : BuildCreateLesson(ok)
  \/ BuildSpawn

BuildSpec == BuildInit /\ [][BuildNext]_vars

\* ------------------------------------------- citation reconciliation
\* The text of a lesson is a sequence of characters; the texts the provider
\* may return are built from the pieces below.
MaxChunks == 2       \* pieces in one generated text
MaxCitations == 2    \* entries of the research citation array

Chunks ==
  { <<"[", "1", "]">>, <<"[", "2", "]">>, <<"[", "0", "]">>, <<"[", "9", "]">>,
    <<"[", "0", "1", "]">>, <<"x">>, <<"[">>, <<"1", "]">> }

RECURSIVE Flatten(_)
Flatten(cs) == IF cs = <<>> THEN <<>> ELSE Head(cs) \o Flatten(Tail(cs))

Contents == {Flatten(cs) : cs \in UNION {[1..n -> Chunks] : n \in 0..MaxChunks}}

Urls == {"https://a", "https://b"}

\* conductDeepResearch: the citation of the url at 0-based index i
Citation(url, index) == [id |-> index + 1, url |-> url]

\* the citation arrays a completed research may hold
CitationArrays ==
  { [j \in 1..Len(us) |-> Citation(us[j], j - 1)] :
      us \in UNION {[1..k -> Urls] : k \in 0..MaxCitations} }

\* the states the research row can be in: "[]" until the research completes
ResearchRows ==
  {NoRow}
    \cup {[status |-> st, citations |-> <<>>] : st \in {"pending", "generating", "failed"}}
    \cup {[status |-> "completed", citations |-> c] : c \in CitationArrays}

Range(f) == {f[x] : x \in DOMAIN f}

\* \d of a regular expression
IsDigit(c) == c \in {"0", "1", "2", "3", "4", "5", "6", "7", "8", "9"}

DigitValue(c) ==
  CASE c = "0" -> 0 [] c = "1" -> 1 [] c = "2" -> 2 [] c = "3" -> 3 [] c = "4" -> 4
    [] c = "5" -> 5 [] c = "6" -> 6 [] c = "7" -> 7 [] c = "8" -> 8 [] c = "9" -> 9

\* parseInt of a string of digits
RECURSIVE ParseInt(_)
ParseInt(ds) ==
  IF ds = <<>> THEN 0
  ELSE 10 * ParseInt(SubSeq(ds, 1, Len(ds) - 1)) + DigitValue(ds[Len(ds)])

\* the first position from i on that holds no digit
RECURSIVE DigitsEnd(_, _)
DigitsEnd(text, i) ==
  IF i <= Len(text) /\ IsDigit(text[i]) THEN DigitsEnd(text, i + 1) ELSE i

\* content.matchAll(/\[(\d+)\]/g) from position i: the captured groups
RECURSIVE MatchAll(_, _)
MatchAll(text, i) ==
  IF i > Len(text) THEN <<>>
  ELSE LET j == DigitsEnd(text, i + 1) IN
       IF text[i] = "[" /\ j > i + 1 /\ j <= Len(text) /\ text[j] = "]"
         THEN <<SubSeq(text, i + 1, j - 1)>> \o MatchAll(text, j + 1)
         ELSE MatchAll(text, i + 1)

\* usedCitations: the set of the parsed marker numbers
UsedCitations(content) == {ParseInt(m) : m \in Range(MatchAll(content, 1))}

\* variant: the array is indexed from one
JsIndex_FromOne(arr, i) == IF i \in 1..Len(arr) THEN arr[i] ELSE NoRow

\* arr[i] of JavaScript: 0-based, undefined outside the array
JsIndex(arr, i) == IF i \in 0..(Len(arr) - 1) THEN arr[i + 1] ELSE NoRow

\* the citationMap object built after the provider call: null, or an object
\* with one property per used marker whose array entry exists.  The fetch
\* task also requires a non-empty array; the pre-generation task does not.
BuildCitationMap(snapshot, citations, content, path) ==
  IF /\ IsRow(snapshot) /\ snapshot.status = "completed"
     /\ (path = "fetch" => Len(citations) > 0)
     /\ UsedCitations(content) # {}
    THEN [obj |-> [n \in {u \in UsedCitations(content) :
                            IsRow(JsIndex(citations, u - 1))}
                     |-> JsIndex(citations, n - 1).url]]
    ELSE Null

RECURSIVE Ascending(_)
Ascending(S) ==
  IF S = {} THEN <<>>
  ELSE LET m == CHOOSE x \in S : \A y \in S : x <= y
       IN  <<m>> \o Ascending(S \ {m})

\* JSON.stringify of the object: its properties, integer keys ascending
JsonStringify(o) ==
  [json |-> [i \in 1..Cardinality(DOMAIN o.obj) |->
               <<Ascending(DOMAIN o.obj)[i], o.obj[Ascending(DOMAIN o.obj)[i]]>>]]

\* citationMap ? JSON.stringify(citationMap) : null -- every object is truthy
PersistedCitationMap(m) == IF m = Null THEN Null ELSE JsonStringify(m)

\* variant: the sources are labelled with their 0-based index
SourceLine_ZeroBased(c, i) == [label |-> i, url |-> c.url]

\* `[${i + 1}] ${c.url}` for the citation at 0-based index i
SourceLine(c, i) == [label |-> i + 1, url |-> c.url]

\* "Available Sources" of the prompt: citations.map((c, i) => ...)
AvailableSources(citations) ==
  [j \in 1..Len(citations) |-> SourceLine(citations[j], j - 1)]

\* JSON.parse(research.citations || "[]")
ParseCitations(snapshot) == snapshot.citations

\* the research task's final update lands while the generation is in flight
CiteResearchEnds ==
  /\ IsRow(citeRow) /\ citeRow.status \in {"pending", "generating"}
  /\ citeTask.pc \in {"calling", "write"}
  /\ UNCHANGED <<main, fb, dialog, citeTask, citeLesson>>
  /\ \/ \E c \in CitationArrays : citeRow' = [status |-> "completed", citations |-> c]
     \/ citeRow' = [status |-> "failed", citations |-> <<>>]

\* storage.getCourseResearch, the research context of the prompt, and
\* anthropic.messages.create is issued
CiteTaskResearch(ok) ==
  /\ citeTask.pc = "research"
  /\ UNCHANGED <<main, fb, dialog, citeRow, citeLesson>>
  /\ IF ~ok THEN citeTask' = [citeTask EXCEPT !.pc = "done"]
     ELSE LET completed == IsRow(citeRow) /\ citeRow.status = "completed"
              citations == IF completed THEN ParseCitations(citeRow) ELSE <<>>
          IN  citeTask' = [citeTask EXCEPT
                !.pc = "calling", !.research = citeRow,
                !.researchCitations = IF citeTask.path = "fetch" THEN citations ELSE <<>>,
                !.sources = AvailableSources(citations)]

\* the provider call returns a text, a non-text first block, or fails
CiteProviderReturn ==
  /\ citeTask.pc = "calling"
  /\ UNCHANGED <<main, fb, dialog, citeRow, citeLesson>>
  /\ \/ \E c \in Contents : citeTask' = [citeTask EXCEPT !.pc = "write", !.content = c]
     \/ citeTask' = [citeTask EXCEPT !.pc = "write", !.content = <<>>]
     \/ citeTask' = [citeTask EXCEPT !.pc = "done"]

\* the citation map is built, then storage.updateLesson(lessonId, {content, citationMap})
CiteTaskWrite(ok) ==
  /\ citeTask.pc = "write"
  /\ UNCHANGED <<main, fb, dialog, citeRow>>
  /\ citeTask' = [citeTask EXCEPT !.pc = "done"]
  /\ IF ~ok THEN UNCHANGED citeLesson
     ELSE LET citations == IF citeTask.path = "fetch"
                             THEN citeTask.researchCitations
                             ELSE IF IsRow(citeTask.research)
                               THEN ParseCitations(citeTask.research) ELSE <<>>
              citationMap == BuildCitationMap(citeTask.research, citations,
                                              citeTask.content, citeTask.path)
          IN  citeLesson' = [written |-> TRUE, content |-> citeTask.content,
                             citationMap |-> PersistedCitationMap(citationMap)]

\* one generation task (of the build or of a fetch) at its research read,
\* with the research row in any of its states
CiteInit ==
  /\ Idle /\ outline = Titled(<<1>>) /\ perplexityKey = TRUE /\ clientLesson = 1
  /\ FbIdle /\ DialogIdle /\ PeripheryIdle
  /\ citeRow \in ResearchRows
  /\ \E path \in {"pregen", "fetch"} :
       citeTask = [IdleCiteTask EXCEPT !.pc = "research", !.path = path]
  /\ citeLesson = NewCiteLesson

CiteNext ==
  \/ CiteResearchEnds
  \/ \E ok \in BOOLEAN : CiteTaskResearch(ok)
  \/ CiteProviderReturn
  \/ \E ok \in BOOLEAN : CiteTaskWrite(ok)

CiteSpec == CiteInit /\ [][CiteNext]_vars

\* ---------------------------------------------------- learner feedback
MaxFeedback == 5     \* rows of lesson_feedback the course may get

\* the text of each submission, in the order they are made
FeedbackTexts == <<"f1", "f2", "f3", "f4", "f5", "f6", "f7", "f8">>

RecentStart == -3    \* allFeedback.slice(-3)

FeedbackHeader ==
  "\n\nThe learner has provided this feedback on previous lessons that you should incorporate:\n- "

PromptHead == "Write a 5-minute educational lesson for: ..."
PromptTail == "\n\nWrite professional, well-researched educational content that: ..."

\* ORDER BY created_at ASC of a set of rows
RECURSIVE OrderByCreatedAt(_)
OrderByCreatedAt(rows) ==
  IF rows = {} THEN <<>>
  ELSE LET r == CHOOSE x \in rows : \A y \in rows : x.createdAt <= y.createdAt
       IN  <<r>> \o OrderByCreatedAt(rows \ {r})

\* storage.getFeedbackByCourse: the course's rows, oldest first
GetFeedbackByCourse == OrderByCreatedAt(lessonFeedback)

\* variant: the whole array
JsSlice_All(arr, start) == arr

\* arr.slice(start) of JavaScript: a negative start counts from the end
JsSlice(arr, start) ==
  LET from == IF start < 0
                THEN (IF Len(arr) + start > 0 THEN Len(arr) + start ELSE 0)
                ELSE (IF start < Len(arr) THEN start ELSE Len(arr))
  IN  SubSeq(arr, from + 1, Len(arr))

\* items.join(sep): a string is the sequence of its parts, "" is <<>>
RECURSIVE Join(_, _)
Join(items, sep) ==
  IF items = <<>> THEN <<>>
  ELSE IF Len(items) = 1 THEN <<items[1]>>
  ELSE <<items[1], sep>> \o Join(Tail(items), sep)

\* allFeedback.slice(-3).map(f => f.feedback).join("\n- ")
RecentFeedback(allFeedback) ==
  LET recent == JsSlice(allFeedback, RecentStart)
  IN  Join([i \in 1..Len(recent) |-> recent[i].feedback], "\n- ")

\* feedbackContext: empty unless recentFeedback is a non-empty string
FeedbackContext(recentFeedback) ==
  IF recentFeedback = <<>> THEN <<>> ELSE <<FeedbackHeader>> \o recentFeedback

\* variant: the prompt is composed from the feedback table as it is when
\* the provider call is issued
PromptFeedback_Fresh(t) == FeedbackContext(RecentFeedback(GetFeedbackByCourse))

\* ${feedbackContext} of the prompt: the task's local
PromptFeedback(t) == fbTask[t].feedbackContext

\* the content of the provider request
Prompt(feedbackContext) == <<PromptHead>> \o feedbackContext \o <<PromptTail>>

\* the learner submits feedback: validation, storage.getLesson and
\* storage.getCourse with the ownership check
FeedbackRead(feedback, ok) ==
  /\ fbReq.pc \in {"idle", "done"}
  /\ Cardinality(lessonFeedback) < MaxFeedback
  /\ UNCHANGED <<main, cite, dialog, lessonFeedback, userFeedback, fbTask>>
  /\ fbReq' = IF FalsyString(feedback)
                THEN [pc |-> "done", feedback |-> feedback, resp |-> [status |-> 400]]
              ELSE IF ~ok
                THEN [pc |-> "done", feedback |-> feedback, resp |-> [status |-> 500]]
              ELSE [pc |-> "updateLesson", feedback |-> feedback, resp |-> NoResp]

\* storage.updateLesson(lessonId, {userFeedback: feedback})
FeedbackUpdateLesson(ok) ==
  /\ fbReq.pc = "updateLesson"
  /\ UNCHANGED <<main, cite, dialog, lessonFeedback, fbTask>>
  /\ IF ok
       THEN /\ userFeedback' = fbReq.feedback
            /\ fbReq' = [fbReq EXCEPT !.pc = "createFeedback"]
       ELSE /\ UNCHANGED userFeedback
            /\ fbReq' = [fbReq EXCEPT !.pc = "done", !.resp = [status |-> 500]]

\* storage.createFeedback: the row gets the next serial id and the current
\* time, then res.json({success: true, feedback})
FeedbackCreate(ok) ==
  /\ fbReq.pc = "createFeedback"
  /\ UNCHANGED <<main, cite, dialog, userFeedback, fbTask>>
  /\ IF ok
       THEN /\ lessonFeedback' = lessonFeedback \cup
                 {[id |-> Cardinality(lessonFeedback) + 1,
                   createdAt |-> Cardinality(lessonFeedback) + 1,
                   feedback |-> fbReq.feedback]}
            /\ fbReq' = [fbReq EXCEPT !.pc = "done", !.resp = [status |-> 200]]
       ELSE /\ UNCHANGED lessonFeedback
            /\ fbReq' = [fbReq EXCEPT !.pc = "done", !.resp = [status |-> 500]]

\* a fetch of a pending lesson spawns its task, which re-checks the lesson
FbTaskSpawn(t) ==
  /\ fbTask[t].pc = "unspawned"
  /\ UNCHANGED <<main, cite, dialog, lessonFeedback, userFeedback, fbReq>>
  /\ fbTask' = [fbTask EXCEPT ![t].pc = "feedback"]

\* storage.getFeedbackByCourse, recentFeedback and feedbackContext
FbTaskFeedback(t, ok) ==
  /\ fbTask[t].pc = "feedback"
  /\ UNCHANGED <<main, cite, dialog, lessonFeedback, userFeedback, fbReq>>
  /\ fbTask' = IF ok
       THEN [fbTask EXCEPT ![t].pc = "research",
               ![t].feedbackContext = FeedbackContext(RecentFeedback(GetFeedbackByCourse))]
       ELSE [fbTask EXCEPT ![t].pc = "done"]

\* storage.getCourseResearch, then anthropic.messages.create is issued with
\* the prompt
FbTaskResearch(t, ok) ==
  /\ fbTask[t].pc = "research"
  /\ UNCHANGED <<main, cite, dialog, lessonFeedback, userFeedback, fbReq>>
  /\ fbTask' = IF ok
       THEN [fbTask EXCEPT ![t].pc = "calling", ![t].prompt = Prompt(PromptFeedback(t))]
       ELSE [fbTask EXCEPT ![t].pc = "done"]

\* the provider answers the prompt it was sent, or fails
FbProviderReturn(t) ==
  /\ fbTask[t].pc = "calling"
  /\ UNCHANGED <<main, cite, dialog, lessonFeedback, userFeedback, fbReq>>
  /\ \E returned \in BOOLEAN :
       fbTask' = [fbTask EXCEPT ![t].pc = "done",
                    ![t].result = IF returned THEN [answers |-> fbTask[t].prompt] ELSE Null]

FbInit ==
  /\ Idle /\ outline = Titled(<<1>>) /\ perplexityKey = TRUE /\ clientLesson = 1
  /\ CiteIdle /\ DialogIdle /\ PeripheryIdle
  /\ FbIdle

FbNext ==
  \/ \E ok \in BOOLEAN :
       FeedbackRead(FeedbackTexts[Cardinality(lessonFeedback) + 1], ok)
  \/ FeedbackRead("", TRUE)
  \/ \E ok \in BOOLEAN : FeedbackUpdateLesson(ok)
  \/ \E ok \in BOOLEAN : FeedbackCreate(ok)
  \/ \E t \in FbTaskIds : FbTaskSpawn(t)
  \/ \E t \in FbTaskIds, ok \in BOOLEAN : FbTaskFeedback(t, ok)
  \/ \E t \in FbTaskIds, ok \in BOOLEAN : FbTaskResearch(t, ok)
  \/ \E t \in FbTaskIds : FbProviderReturn(t)

FbSpec == FbInit /\ [][FbNext]_vars

\* ------------------------------- two feedback submissions in flight
\* Two requests for the same lesson are in the handler together.  fbReq is
\* the one that takes the next step; the other waits at its await.

\* the texts the two submissions carry
RaceTexts == {"f1", "f2"}

\* the event loop resumes the other request
FbSwitch ==
  /\ fbReq.pc # "idle" \/ fbParked.pc # "idle"
  /\ fbReq # fbParked
  /\ fbReq' = fbParked /\ fbParked' = fbReq
  /\ UNCHANGED <<courses, lessons, research, lessonSeq, outline, perplexityKey,
                 clientLesson, build, del, req, client, task, rtask, hostUp,
                 researchLog, cite, dialog, lessonFeedback, userFeedback, fbTask,
                 extract, completion, accessing, scheduling>>

FbRaceNext ==
  \/ \E feedback \in RaceTexts, ok \in BOOLEAN : FeedbackRead(feedback, ok)
  \/ \E ok \in BOOLEAN : FeedbackUpdateLesson(ok)
  \/ \E ok \in BOOLEAN : FeedbackCreate(ok)
  \/ FbSwitch

FbRaceSpec == FbInit /\ [][FbRaceNext]_vars

\* ------------------------------------------------ the new-course page
MaxTurns == 5        \* messages the user may send (submissions and build clicks)

\* what the user may have typed when submitting
Inputs == {"", " ", "rust ", "go"}

\* input.trim()
Trim(x) == CASE x = " " -> "" [] x = "rust " -> "rust" [] OTHER -> x

\* what the preview endpoint may answer with
Questions == {"Which level?"}
PreviewOutlines == {Titled(<<1>>), Titled(<<1, 2>>)}

UserMessages(c) ==
  Cardinality({i \in DOMAIN c.messages : c.messages[i].role = "user"})

\* the send button and the textarea: disabled while generating or building
SubmitEnabled(c, input) == ~(FalsyString(Trim(input)) \/ c.isGenerating \/ c.isBuilding)

\* the guard of handleSubmit
HandleSubmitProceeds(c, input) ==
  ~(FalsyString(Trim(input)) \/ c.isGenerating \/ c.isBuilding)

\* variant: the build button is not disabled while a preview is generating
BuildButtonEnabled_WhileGenerating(c) == c.currentOutline # Null /\ ~c.isBuilding

\* the build button: rendered with an outline while not building, disabled
\* while generating or building
BuildButtonEnabled(c) ==
  /\ c.currentOutline # Null /\ ~c.isBuilding
  /\ ~(c.isGenerating \/ c.isBuilding)

\* the guard of handleBuild
HandleBuildProceeds(c) == ~(c.currentOutline = Null \/ c.isBuilding)

\* handleSubmit, and the mutationFn of previewMutation up to its request
HandleSubmit(input) ==
  /\ conv.page = "new-course" /\ UserMessages(conv) < MaxTurns
  /\ SubmitEnabled(conv, input) /\ HandleSubmitProceeds(conv, input)
  /\ UNCHANGED <<main, cite, fb, buildReq>>
  /\ LET userInput == Trim(input)
         updatedHistory == conv.conversationHistory \o <<[who |-> "User", text |-> userInput]>>
     IN  IF conv.currentOutline = Null
           THEN /\ conv' = [conv EXCEPT
                      !.messages = Append(@, Message("user", userInput, Null)),
                      !.originalTopic = IF FalsyString(@) THEN userInput ELSE @,
                      !.conversationHistory = updatedHistory,
                      !.isGenerating = TRUE]
                /\ previewReq' =
                     [topic |-> IF FalsyString(conv.originalTopic)
                                  THEN userInput ELSE conv.originalTopic,
                      feedback |-> Null, previousOutline |-> Null,
                      conversationHistory |-> updatedHistory]
           ELSE /\ conv' = [conv EXCEPT
                      !.messages = Append(@, Message("user", userInput, Null)),
                      !.isGenerating = TRUE]
                /\ previewReq' =
                     [topic |-> conv.originalTopic, feedback |-> userInput,
                      previousOutline |-> conv.currentOutline,
                      conversationHistory |-> Null]

\* onSuccess of previewMutation for data of type "question"
PreviewQuestion(question) ==
  /\ previewReq # Null
  /\ UNCHANGED <<main, cite, fb, buildReq>>
  /\ previewReq' = Null
  /\ conv' = [conv EXCEPT
        !.isGenerating = FALSE,
        !.messages = Append(@, Message("assistant", question, Null)),
        !.conversationHistory = @ \o <<[who |-> "Assistant", text |-> question]>>]

\* onSuccess of previewMutation for any other data: it is the outline
PreviewOutline(data) ==
  /\ previewReq # Null
  /\ UNCHANGED <<main, cite, fb, buildReq>>
  /\ previewReq' = Null
  /\ conv' = [conv EXCEPT
        !.isGenerating = FALSE,
        !.currentOutline = data,
        !.messages = Append(@, Message("assistant", "", data))]

\* variant: onError also forgets the stored outline
PreviewError_Forgets ==
  /\ previewReq # Null
  /\ UNCHANGED <<main, cite, fb, buildReq>>
  /\ previewReq' = Null
  /\ conv' = [conv EXCEPT
        !.isGenerating = FALSE,
        !.currentOutline = Null,
        !.messages = Append(@, Message("assistant",
                        "Sorry, I had trouble processing that.", Null))]

\* onError of previewMutation
PreviewError ==
  /\ previewReq # Null
  /\ UNCHANGED <<main, cite, fb, buildReq>>
  /\ previewReq' = Null
  /\ conv' = [conv EXCEPT
        !.isGenerating = FALSE,
        !.messages = Append(@, Message("assistant",
                        "Sorry, I had trouble processing that.", Null))]

\* handleBuild, and the mutationFn of buildMutation up to its request
HandleBuild ==
  /\ conv.page = "new-course" /\ UserMessages(conv) < MaxTurns
  /\ BuildButtonEnabled(conv) /\ HandleBuildProceeds(conv)
  /\ UNCHANGED <<main, cite, fb, previewReq>>
  /\ conv' = [conv EXCEPT
        !.messages = Append(@, Message("user", "Build this course!", Null)),
        !.isBuilding = TRUE]
  /\ buildReq' = [outline |-> conv.currentOutline]

\* variant: the page leaves the building state when the build has succeeded
BuildSucceeded_Reset(c) ==
  [c EXCEPT !.messages = Append(@, Message("assistant", "Your course is ready!", Null)),
            !.isBuilding = FALSE]

\* onSuccess of buildMutation: the page stays in the building state
BuildSucceeded(c) ==
  [c EXCEPT !.messages = Append(@, Message("assistant", "Your course is ready!", Null))]

\* the build request is answered: onSuccess (the navigation is scheduled) or
\* onError
BuildResponds(succeeded) ==
  /\ buildReq # Null
  /\ UNCHANGED <<main, cite, fb, previewReq>>
  /\ buildReq' = Null
  /\ conv' = IF succeeded
               THEN BuildSucceeded(conv)
               ELSE [conv EXCEPT
                       !.isBuilding = FALSE,
                       !.messages = Append(@, Message("assistant",
                                       "Sorry, I had trouble building the course.", Null))]

\* the course the page is about to show
IsReady(c) ==
  \E i \in DOMAIN c.messages : c.messages[i].content = "Your course is ready!"

\* the timer of onSuccess fires: navigate(`/course/${data.id}`)
Navigate ==
  /\ conv.page = "new-course" /\ IsReady(conv) /\ buildReq = Null
  /\ UNCHANGED <<main, cite, fb, previewReq, buildReq>>
  /\ conv' = [conv EXCEPT !.page = "course"]

ConvInit ==
  /\ Idle /\ outline = Titled(<<1>>) /\ perplexityKey = TRUE /\ clientLesson = 1
  /\ CiteIdle /\ FbIdle /\ PeripheryIdle
  /\ DialogIdle

\* the page with the answers of the two endpoints chosen freely
ConvNext ==
  \/ \E input \in Inputs : HandleSubmit(input) /\ UNCHANGED preview
  \/ \E q \in Questions : PreviewQuestion(q) /\ UNCHANGED preview
  \/ \E o \in PreviewOutlines : PreviewOutline(o) /\ UNCHANGED preview
  \/ PreviewError /\ UNCHANGED preview
  \/ HandleBuild /\ UNCHANGED preview
  \/ \E succeeded \in BOOLEAN : BuildResponds(succeeded) /\ UNCHANGED preview
  \/ Navigate /\ UNCHANGED preview

ConvSpec == ConvInit /\ [][ConvNext]_vars

\* ------------------------------------------------------- extractJSON
\* A text is a sequence of characters; a run of letters is written as one
\* element.  The texts passed to extractJSON are built from the pieces below.
MaxPieces == 3       \* pieces in one text passed to extractJSON

Quote == "\""
Backtick == "BACKTICK"     \* the character U+0060
Fence == <<Backtick, Backtick, Backtick>>

JsonPieces ==
  { <<"{", Quote, "a", Quote, ":", "1", "}">>, <<"{", "}">>, <<"{">>, <<"}">>,
    Fence, Fence \o <<"json">>, <<" ">>, <<"see">>, <<"[", "1", "]">> }

JsonTexts == {Flatten(cs) : cs \in UNION {[1..n -> JsonPieces] : n \in 0..MaxPieces}}

\* white space of JSON and \s of a regular expression
IsSpace(c) == c = " "

RECURSIVE SkipSpace(_, _)
SkipSpace(t, i) == IF i <= Len(t) /\ IsSpace(t[i]) THEN SkipSpace(t, i + 1) ELSE i

\* a parse that failed; a parse that produced val and stopped before next
NoParse == [ok |-> FALSE]
Parsed(val, next) == [ok |-> TRUE, val |-> val, next |-> next]

\* the position of the first quote from i on, or 0
RECURSIVE QuoteFrom(_, _)
QuoteFrom(t, i) ==
  IF i > Len(t) THEN 0 ELSE IF t[i] = Quote THEN i ELSE QuoteFrom(t, i + 1)

\* a JSON string starting at i
ParseString(t, i) ==
  IF i <= Len(t) /\ t[i] = Quote /\ QuoteFrom(t, i + 1) # 0
    THEN LET j == QuoteFrom(t, i + 1) IN Parsed([str |-> SubSeq(t, i + 1, j - 1)], j + 1)
    ELSE NoParse

\* a JSON number starting at the digit at i: no digit may follow a leading 0
ParseNumber(t, i) ==
  LET j == IF t[i] = "0" THEN i + 1 ELSE DigitsEnd(t, i)
  IN  Parsed([num |-> ParseInt(SubSeq(t, i, j - 1))], j)

\* JSON.parse, by recursive descent: a value starting at or after i; the
\* members of an object and the elements of an array from i on, following the
\* ones collected in acc.  A repeated key keeps its last value.
RECURSIVE ParseValue(_, _), ParseMembers(_, _, _), ParseElements(_, _, _)
ParseValue(t, i) ==
  LET j == SkipSpace(t, i) IN
  IF j > Len(t) THEN NoParse
  ELSE IF t[j] = "{"
    THEN LET k == SkipSpace(t, j + 1) IN
         IF k <= Len(t) /\ t[k] = "}" THEN Parsed([obj |-> <<>>], k + 1)
         ELSE ParseMembers(t, k, <<>>)
  ELSE IF t[j] = "["
    THEN LET k == SkipSpace(t, j + 1) IN
         IF k <= Len(t) /\ t[k] = "]" THEN Parsed([arr |-> <<>>], k + 1)
         ELSE ParseElements(t, k, <<>>)
  ELSE IF t[j] = Quote THEN ParseString(t, j)
  ELSE IF IsDigit(t[j]) THEN ParseNumber(t, j)
  ELSE IF t[j] = "null" THEN Parsed(Null, j + 1)
  ELSE NoParse

ParseMembers(t, i, acc) ==
  LET key == ParseString(t, i) IN
  IF ~key.ok THEN NoParse
  ELSE LET c == SkipSpace(t, key.next) IN
       IF c > Len(t) \/ t[c] # ":" THEN NoParse
       ELSE LET v == ParseValue(t, c + 1) IN
            IF ~v.ok THEN NoParse
            ELSE LET d == SkipSpace(t, v.next)
                     members == (key.val.str :> v.val) @@ acc
                 IN  IF d > Len(t) THEN NoParse
                     ELSE IF t[d] = "," THEN ParseMembers(t, SkipSpace(t, d + 1), members)
                     ELSE IF t[d] = "}" THEN Parsed([obj |-> members], d + 1)
                     ELSE NoParse

ParseElements(t, i, acc) ==
  LET v == ParseValue(t, i) IN
  IF ~v.ok THEN NoParse
  ELSE LET d == SkipSpace(t, v.next)
           elements == Append(acc, v.val)
       IN  IF d > Len(t) THEN NoParse
           ELSE IF t[d] = "," THEN ParseElements(t, d + 1, elements)
           ELSE IF t[d] = "]" THEN Parsed([arr |-> elements], d + 1)
           ELSE NoParse

\* JSON.parse(t): the value, or a SyntaxError when t is not one JSON value
SyntaxError == [threw |-> "SyntaxError"]
Returned(val) == [returned |-> val]

JsonParse(t) ==
  LET r == ParseValue(t, 1) IN
  IF r.ok /\ SkipSpace(t, r.next) > Len(t) THEN Returned(r.val) ELSE SyntaxError

FenceAt(t, i) == i + 2 <= Len(t) /\ SubSeq(t, i, i + 2) = Fence

Min(S) == CHOOSE x \in S : \A y \in S : x <= y
Max(S) == CHOOSE x \in S : \A y \in S : x >= y

\* String.prototype.trim
RECURSIVE TrimEnd(_)
TrimEnd(t) == IF t # <<>> /\ IsSpace(t[Len(t)]) THEN TrimEnd(SubSeq(t, 1, Len(t) - 1)) ELSE t

TrimText(t) == TrimEnd(SubSeq(t, SkipSpace(t, 1), Len(t)))

\* text.match of the pattern fence (?:json)? \s* ([\s\S]*?) fence, ignoring
\* case: the first capture group of the
\* leftmost match, or Null
CodeBlockMatch(t) ==
  LET opens == {i \in 1..Len(t) : FenceAt(t, i) /\ \E j \in (i + 3)..Len(t) : FenceAt(t, j)}
  IN  IF opens = {} THEN Null
      ELSE LET open == Min(opens)
               afterJson == IF open + 3 <= Len(t) /\ t[open + 3] \in {"json", "JSON"}
                              THEN open + 4 ELSE open + 3
               start == SkipSpace(t, afterJson)
               close == Min({j \in start..Len(t) : FenceAt(t, j)})
           IN  [group1 |-> SubSeq(t, start, close - 1)]

\* indexOf and lastIndexOf of one character, 0-based, -1 when absent
IndexOf(t, c) == IF \E i \in DOMAIN t : t[i] = c THEN Min({i \in DOMAIN t : t[i] = c}) - 1 ELSE -1
LastIndexOf(t, c) == IF \E i \in DOMAIN t : t[i] = c THEN Max({i \in DOMAIN t : t[i] = c}) - 1 ELSE -1

\* the string extractJSON hands to JSON.parse
JsonStr(t) ==
  LET codeBlockMatch == CodeBlockMatch(t)
      firstBrace == IndexOf(t, "{")
      lastBrace == LastIndexOf(t, "}")
  IN  IF codeBlockMatch # Null THEN TrimText(codeBlockMatch.group1)
      ELSE IF firstBrace # -1 /\ lastBrace > firstBrace
        THEN SubSeq(t, firstBrace + 1, lastBrace + 1)
        ELSE t

extractJSON(t) == JsonParse(JsonStr(t))

\* extractJSON is called on the text
ExtractCall ==
  /\ extracted = Null
  /\ extracted' = extractJSON(providerText)
  /\ UNCHANGED <<base, providerText, completion, accessing, scheduling, fbParked>>

ExtractInit ==
  /\ Idle /\ outline = Titled(<<1>>) /\ perplexityKey = TRUE /\ clientLesson = 1
  /\ CiteIdle /\ FbIdle /\ DialogIdle /\ ServicesIdle
  /\ providerText \in JsonTexts /\ extracted = Null

ExtractNext == ExtractCall

ExtractSpec == ExtractInit /\ [][ExtractNext]_vars

\* ------------------------------------------ POST /api/courses/preview
MaxSubmits == 2      \* messages the user may send to the preview endpoint

\* undefined of JavaScript
Undefined == [undefined |-> TRUE]

\* a string value whose characters are written as one element
Str(chars) == [str |-> IF chars = "" THEN <<>> ELSE <<chars>>]

\* v[key] of a parsed value that is not null
Get(v, key) ==
  IF "obj" \in DOMAIN v /\ <<key>> \in DOMAIN v.obj THEN v.obj[<<key>>] ELSE Undefined

\* !v is false
Truthy(v) ==
  IF "str" \in DOMAIN v THEN v.str # <<>>
  ELSE IF "num" \in DOMAIN v THEN v.num # 0
  ELSE "obj" \in DOMAIN v \/ "arr" \in DOMAIN v

IsArray(v) == "arr" \in DOMAIN v

\* the own enumerable properties {...v} copies
Spread(v) ==
  IF "obj" \in DOMAIN v THEN v.obj
  ELSE IF "arr" \in DOMAIN v
    THEN [k \in {<<ToString(i - 1)>> : i \in DOMAIN v.arr} |->
            v.arr[CHOOSE i \in DOMAIN v.arr : <<ToString(i - 1)>> = k]]
  ELSE IF "str" \in DOMAIN v
    THEN [k \in {<<ToString(i - 1)>> : i \in DOMAIN v.str} |->
            [str |-> <<v.str[CHOOSE i \in DOMAIN v.str : <<ToString(i - 1)>> = k]>>]]
  ELSE <<>>

\* res.json(body) read back by response.json(): undefined properties are dropped
Json(status, members) ==
  [status |-> status,
   body |-> [obj |-> [k \in {x \in DOMAIN members : members[x] # Undefined} |-> members[k]]]]

PreviewFailed(message) == Json(500, <<"error">> :> Str(message))

\* the texts of JSON values, for the answers of the provider
TextOfString(chars) == <<Quote, chars, Quote>>
TextOfObject(members) == <<"{">> \o Flatten(Join(members, <<",">>)) \o <<"}">>
TextOfArray(elements) == <<"[">> \o Flatten(Join(elements, <<",">>)) \o <<"]">>
Member(key, valueText) == TextOfString(key) \o <<":">> \o valueText
SessionText(n) ==
  TextOfObject(<<Member("title", TextOfString("S")), Member("sessionNumber", <<n>>)>>)
OutlineText(sessionTexts) ==
  TextOfObject(<<Member("type", TextOfString("outline")), Member("title", TextOfString("T")),
                 Member("description", TextOfString("D")),
                 Member("sessions", TextOfArray(sessionTexts))>>)

\* what the provider call may end with: it throws, it returns no text block,
\* or it returns a text
ProviderAnswers ==
  { [threw |-> TRUE], [content |-> "none"] } \cup
  { [text |-> t] : t \in
     { TextOfObject(<<Member("type", TextOfString("question")),
                      Member("question", TextOfString("Which level?"))>>),
       OutlineText(<<SessionText("1")>>),
       Fence \o <<"json", " ">> \o OutlineText(<<SessionText("1"), SessionText("2")>>)
         \o <<" ">> \o Fence,
       <<"see", " ">> \o OutlineText(<<SessionText("1")>>) \o <<" ", "{", "see", "}">>,
       OutlineText(<<SessionText("1"), SessionText("3")>>),
       OutlineText(<<>>),
       TextOfObject(<<Member("type", TextOfString("outline")),
                      Member("title", TextOfString("T"))>>),
       TextOfObject(<<Member("type", TextOfString("lesson"))>>),
       <<"null">>,
       <<"see">> } }

\* a field of the request body that is absent
IsNull(x) == ToString(x) = ToString(Null)

\* the handler from the request body to its response; answer is what the
\* provider call ends with
PreviewHandler(body, answer) ==
  IF FalsyString(body.topic) THEN Json(400, <<"error">> :> Str("Topic is required"))
  ELSE IF /\ ~IsNull(body.previousOutline)
          /\ ~IsNull(body.feedback) /\ ~FalsyString(body.feedback)
    THEN IF "threw" \in DOMAIN answer THEN PreviewFailed("Failed to generate preview")
         ELSE IF "content" \in DOMAIN answer THEN PreviewFailed("Failed to generate preview")
         ELSE LET result == extractJSON(answer.text) IN
              IF result = SyntaxError THEN PreviewFailed("Failed to generate preview")
              ELSE Json(200, (<<"type">> :> Str("outline")) @@ Spread(result.returned))
    ELSE IF "threw" \in DOMAIN answer THEN PreviewFailed("Failed to generate preview")
         ELSE IF "content" \in DOMAIN answer THEN PreviewFailed("Failed to process request")
         ELSE LET result == extractJSON(answer.text) IN
              IF result = SyntaxError THEN PreviewFailed("Failed to generate preview")
              ELSE IF result.returned = Null
                THEN PreviewFailed("Failed to generate preview")   \* TypeError on result.type
              ELSE IF Get(result.returned, "type") = Str("question")
                THEN Json(200, (<<"type">> :> Str("question")) @@
                               (<<"question">> :> Get(result.returned, "question")))
              ELSE IF Get(result.returned, "type") = Str("outline")
                THEN IF \/ ~Truthy(Get(result.returned, "title"))
                        \/ ~Truthy(Get(result.returned, "description"))
                        \/ ~IsArray(Get(result.returned, "sessions"))
                       THEN PreviewFailed("Invalid outline structure")
                       ELSE [status |-> 200, body |-> result.returned]
              ELSE PreviewFailed("Invalid response type")

\* the handler runs on the request in flight, from the provider call to res.json
PreviewServe(answer) ==
  /\ previewReq # Null /\ preview = IdlePreview
  /\ preview' = [pc |-> "responded", answer |-> answer,
                 resp |-> PreviewHandler(previewReq, answer)]
  /\ UNCHANGED <<main, cite, fb, conv, previewReq, buildReq>>

\* apiRequest throws unless res.ok
ResponseOk(status) == status >= 200 /\ status <= 299

\* the text a message shows for a value
JsToString(v) ==
  IF "str" \in DOMAIN v /\ Len(v.str) <= 1
    THEN IF v.str = <<>> THEN "" ELSE v.str[1]
    ELSE ToString(v)

\* the response arrives: onSuccess with the parsed body, or onError
PreviewReceive ==
  /\ preview # IdlePreview
  /\ preview' = IdlePreview
  /\ IF ~ResponseOk(preview.resp.status) THEN PreviewError
     ELSE IF Get(preview.resp.body, "type") = Str("question")
       THEN PreviewQuestion(JsToString(Get(preview.resp.body, "question")))
       ELSE PreviewOutline(preview.resp.body)

PreviewInit ==
  /\ Idle /\ outline = Titled(<<1>>) /\ perplexityKey = TRUE /\ clientLesson = 1
  /\ CiteIdle /\ FbIdle /\ PeripheryIdle
  /\ DialogIdle

\* the page and the preview endpoint
PreviewNext ==
  \/ \E input \in Inputs :
       UserMessages(conv) < MaxSubmits /\ HandleSubmit(input) /\ UNCHANGED preview
  \/ \E answer \in ProviderAnswers : PreviewServe(answer)
  \/ PreviewReceive

PreviewSpec == PreviewInit /\ [][PreviewNext]_vars

\* ------------------------------------- POST /api/lessons/:id/complete
\* The course has TotalLessons lessons, numbered from 1, and its owner
\* completes them; every await of the handler is a step.

\* storage.getLessonProgress: a row of the user and the lesson (the query has
\* no ORDER BY: the first by id here), or undefined
GetLessonProgress(userId, lessonId) ==
  LET ids == {i \in DOMAIN lessonProgress :
                lessonProgress[i].userId = userId /\ lessonProgress[i].lessonId = lessonId}
  IN  IF ids = {} THEN NoRow ELSE [id |-> Min(ids)]

\* storage.getCompletedLessonsCount: count(*) of the completed rows of the
\* user and the course
GetCompletedLessonsCount(userId, courseId) ==
  Cardinality({i \in DOMAIN lessonProgress :
                 /\ lessonProgress[i].userId = userId
                 /\ lessonProgress[i].courseId = courseId
                 /\ lessonProgress[i].isCompleted})

\* the insert of markLessonComplete: the table has no unique constraint on
\* (user_id, lesson_id)
InsertProgress(rows, userId, lessonId, courseId) ==
  Append(rows, [userId |-> userId, lessonId |-> lessonId, courseId |-> courseId,
                isCompleted |-> TRUE])

\* a store call of the handler throws
CompleteFailed(c) ==
  /\ complete' = [complete EXCEPT ![c].pc = "done", ![c].resp = [status |-> 500]]
  /\ UNCHANGED <<lessonProgress, courseCompleted>>

\* storage.getLesson, storage.getCourse and the ownership check
CompleteRead(c, lessonId, ok) ==
  /\ complete[c].pc = "idle"
  /\ UNCHANGED <<base, extract, accessing, scheduling, fbParked>>
  /\ IF ok
       THEN /\ complete' = [complete EXCEPT ![c].pc = "getProgress", ![c].lessonId = lessonId]
            /\ UNCHANGED <<lessonProgress, courseCompleted>>
       ELSE CompleteFailed(c)

\* markLessonComplete: const existing = await this.getLessonProgress(...)
CompleteGetProgress(c, ok) ==
  /\ complete[c].pc = "getProgress"
  /\ UNCHANGED <<base, extract, accessing, scheduling, fbParked>>
  /\ IF ok
       THEN /\ complete' = [complete EXCEPT ![c].pc = "mark",
                              ![c].existing = GetLessonProgress(Owner, complete[c].lessonId)]
            /\ UNCHANGED <<lessonProgress, courseCompleted>>
       ELSE CompleteFailed(c)

\* markLessonComplete: the update of the existing row, or the insert
CompleteMark(c, ok) ==
  /\ complete[c].pc = "mark"
  /\ UNCHANGED <<base, extract, accessing, scheduling, fbParked>>
  /\ IF ok
       THEN /\ lessonProgress' =
                 IF IsRow(complete[c].existing)
                   THEN [lessonProgress EXCEPT ![complete[c].existing.id].isCompleted = TRUE]
                   ELSE InsertProgress(lessonProgress, Owner, complete[c].lessonId, CourseId)
            /\ complete' = [complete EXCEPT ![c].pc = "count"]
            /\ UNCHANGED courseCompleted
       ELSE CompleteFailed(c)

\* storage.getCompletedLessonsCount; the response when the count is below
\* course.totalLessons
CompleteCount(c, ok) ==
  /\ complete[c].pc = "count"
  /\ UNCHANGED <<base, extract, accessing, scheduling, fbParked>>
  /\ IF ok
       THEN LET completedCount == GetCompletedLessonsCount(Owner, CourseId) IN
            /\ complete' =
                 IF completedCount >= TotalLessons
                   THEN [complete EXCEPT ![c].pc = "updateCourse",
                                         ![c].completedCount = completedCount]
                   ELSE [complete EXCEPT ![c].pc = "done",
                                         ![c].completedCount = completedCount,
                                         ![c].resp = [status |-> 200]]
            /\ UNCHANGED <<lessonProgress, courseCompleted>>
       ELSE CompleteFailed(c)

\* storage.updateCourse(course.id, { isCompleted: true }) and the response
CompleteUpdateCourse(c, ok) ==
  /\ complete[c].pc = "updateCourse"
  /\ UNCHANGED <<base, extract, accessing, scheduling, fbParked>>
  /\ IF ok
       THEN /\ courseCompleted' = TRUE
            /\ complete' = [complete EXCEPT ![c].pc = "done", ![c].resp = [status |-> 200]]
            /\ UNCHANGED lessonProgress
       ELSE CompleteFailed(c)

CompleteInit ==
  /\ Idle /\ outline = Titled(<<1, 2>>) /\ perplexityKey = TRUE /\ clientLesson = 1
  /\ CiteIdle /\ FbIdle /\ DialogIdle /\ PeripheryIdle

CompleteNext ==
  \/ \E c \in CompleteIds, lessonId \in 1..TotalLessons, ok \in BOOLEAN :
       CompleteRead(c, lessonId, ok)
  \/ \E c \in CompleteIds, ok \in BOOLEAN : CompleteGetProgress(c, ok)
  \/ \E c \in CompleteIds, ok \in BOOLEAN : CompleteMark(c, ok)
  \/ \E c \in CompleteIds, ok \in BOOLEAN : CompleteCount(c, ok)
  \/ \E c \in CompleteIds, ok \in BOOLEAN : CompleteUpdateCourse(c, ok)

CompleteSpec == CompleteInit /\ [][CompleteNext]_vars

\* ------------------------------- ownership checks of the endpoints
\* Requests of the owner and of another user to the endpoints of lesson 1
\* and of the course, while the course is being built.
Users == {Owner, "u2"}

LessonEndpoints == {"fetch", "complete", "feedback", "expand"}
CourseEndpoints == {"delete", "archive", "unarchive"}

\* what each handler does after its ownership check
EffectsOf(endpoint) ==
  CASE endpoint = "fetch" -> {"read", "task"}
    [] endpoint = "expand" -> {"provider", "write"}
    [] OTHER -> {"write"}

\* variant: only a missing course is refused
AccessDenied_MissingOnly(endpoint, course, userId) ==
  endpoint \in LessonEndpoints /\ ~IsRow(course)

\* the ownership check: !course || course.userId !== userId on the lesson
\* endpoints, course.userId !== userId after the 404 on the course endpoints
AccessDenied(endpoint, course, userId) ==
  IF endpoint \in LessonEndpoints
    THEN ~IsRow(course) \/ course.userId # userId
    ELSE course.userId # userId

\* the response: of a finished request the requester, the course it read
\* and the response are kept
AccessDone(a, status) ==
  access' = [access EXCEPT ![a].pc = "done", ![a].endpoint = "",
                           ![a].resp = [status |-> status]]

\* the request arrives; feedback and expand validate their body first
AccessStart(a, endpoint, userId, validBody) ==
  /\ access[a].pc = "idle"
  /\ UNCHANGED <<base, extract, completion, scheduling, fbParked, effects>>
  /\ access' = [access EXCEPT
        ![a] = IF endpoint \in {"feedback", "expand"} /\ ~validBody
                 THEN [@ EXCEPT !.pc = "done", !.userId = userId,
                                !.resp = [status |-> 400]]
                 ELSE [@ EXCEPT !.endpoint = endpoint, !.userId = userId,
                                !.pc = IF endpoint \in LessonEndpoints
                                         THEN "getLesson" ELSE "getCourse"]]

\* storage.getLesson
AccessGetLesson(a, ok) ==
  /\ access[a].pc = "getLesson"
  /\ UNCHANGED <<base, extract, completion, scheduling, fbParked, effects>>
  /\ IF ~ok THEN AccessDone(a, 500)
     ELSE IF ~IsRow(GetLesson(1)) THEN AccessDone(a, 404)
     ELSE access' = [access EXCEPT ![a].pc = "getCourse"]

\* storage.getCourse and the ownership check
AccessGetCourse(a, ok) ==
  /\ access[a].pc = "getCourse"
  /\ UNCHANGED <<base, extract, completion, scheduling, fbParked, effects>>
  /\ LET course == GetCourse(CourseId) IN
     IF ~ok THEN AccessDone(a, 500)
     ELSE IF access[a].endpoint \in CourseEndpoints /\ ~IsRow(course) THEN AccessDone(a, 404)
     ELSE IF AccessDenied(access[a].endpoint, course, access[a].userId)
       THEN access' = [access EXCEPT ![a].pc = "done", ![a].endpoint = "",
                                      ![a].course = course,
                                      ![a].resp = [status |-> 403]]
     ELSE access' = [access EXCEPT ![a].pc = "act", ![a].course = course]

\* the rest of the handler: its store calls, its provider call, the task it
\* starts, and the response
AccessAct(a, ok) ==
  /\ access[a].pc = "act"
  /\ UNCHANGED <<env, build, del, req, client, task, rtask, hostUp, researchLog,
                 cite, fb, dialog, extract, completion, scheduling, fbParked, lessonSeq>>
  /\ IF ok
       THEN /\ effects' = effects \cup
                 {[userId |-> access[a].userId, kind |-> k] :
                    k \in EffectsOf(access[a].endpoint)}
            /\ IF access[a].endpoint = "delete"
                 THEN DeleteCascade(CourseId)
                 ELSE UNCHANGED <<courses, lessons, research>>
            /\ AccessDone(a, 200)
       ELSE /\ UNCHANGED <<effects, courses, lessons, research>>
            /\ AccessDone(a, 500)

AccessInit ==
  /\ Idle /\ outline = Titled(<<1>>) /\ perplexityKey = FALSE /\ clientLesson = 1
  /\ CiteIdle /\ FbIdle /\ DialogIdle /\ PeripheryIdle

AccessNext ==
  \/ BuildCreateCourse(TRUE)
  \/ BuildCreateLesson(TRUE)
  \/ \E a \in AccessIds, endpoint \in LessonEndpoints \cup CourseEndpoints,
        userId \in Users, validBody \in BOOLEAN :
       AccessStart(a, endpoint, userId, validBody)
  \/ \E a \in AccessIds, ok \in BOOLEAN : AccessGetLesson(a, ok)
  \/ \E a \in AccessIds, ok \in BOOLEAN : AccessGetCourse(a, ok)
  \/ \E a \in AccessIds, ok \in BOOLEAN : AccessAct(a, ok)

AccessSpec == AccessInit /\ [][AccessNext]_vars

\* --------------------------------------------- services/scheduler.ts
\* Time passes hour by hour.  A timer set at minute m of an hour calls back
\* at minute m of every later hour.
MaxDays == 2         \* days the clock runs through

GENERATION_HOUR == 5
GENERATION_WINDOW == 5     \* now.getMinutes() < 5

\* the minute of the hour at which startScheduler may be called
Minutes == {0, 4, 5, 30, 59}

\* the callback of setInterval at the given hour and minute: whether it
\* calls runDailyLessonGeneration
CallbackRuns(hour, minute) == hour = GENERATION_HOUR /\ minute < GENERATION_WINDOW

\* startScheduler at the given minute of the current hour
StartScheduler(minute) ==
  /\ schedulerInterval' = IF schedulerInterval # Null THEN schedulerInterval
                          ELSE [minute |-> minute]
  /\ UNCHANGED <<base, extract, completion, accessing, fbParked, clock, runsToday, dueToday>>

\* stopScheduler
StopScheduler ==
  /\ schedulerInterval # Null
  /\ schedulerInterval' = Null
  /\ UNCHANGED <<base, extract, completion, accessing, fbParked, clock, runsToday, dueToday>>

\* the next hour begins, and in it the timer, if set, calls back
HourPasses ==
  /\ clock.day < MaxDays \/ clock.hour < 23
  /\ UNCHANGED <<base, extract, completion, accessing, fbParked, schedulerInterval>>
  /\ LET hour == (clock.hour + 1) % 24
         newDay == hour = 0
         runs == schedulerInterval # Null /\ CallbackRuns(hour, schedulerInterval.minute)
     IN  /\ clock' = [day |-> IF newDay THEN clock.day + 1 ELSE clock.day, hour |-> hour]
         /\ runsToday' = (IF newDay THEN 0 ELSE runsToday) + (IF runs THEN 1 ELSE 0)
         /\ dueToday' = IF newDay THEN FALSE
                        ELSE IF hour = GENERATION_HOUR THEN schedulerInterval # Null
                        ELSE dueToday

SchedulerInit ==
  /\ Idle /\ outline = Titled(<<1>>) /\ perplexityKey = TRUE /\ clientLesson = 1
  /\ CiteIdle /\ FbIdle /\ DialogIdle /\ ExtractIdle /\ CompletionIdle /\ AccessIdle
  /\ fbParked = IdleFbReq
  /\ clock \in [day : {1}, hour : 0..23] /\ schedulerInterval = Null
  /\ runsToday = 0 /\ dueToday = FALSE

SchedulerNext ==
  \/ \E minute \in Minutes : StartScheduler(minute)
  \/ StopScheduler
  \/ HourPasses

SchedulerSpec == SchedulerInit /\ [][SchedulerNext]_vars

\* ------------------------------------------------------------ properties
\* the reserved placeholder values of lessons.content
IsSentinel(c) == c \in {PENDING_GENERATION, LEGACY_PLACEHOLDER}

LessonIds == 1..lessonSeq

\* tasks that issued the provider call for lesson l
Callers(l) == {t \in TaskIds : task[t].called /\ task[t].lessonId = l}

\* C1: a lesson's content is written at most once: once the stored content
\* is not the sentinel, no later step changes it (a task that finishes
\* after another has committed discards its result).
C1_NoOverwrite ==
  [][\A l \in DOMAIN lessons \cap DOMAIN lessons' :
       ~IsSentinel(lessons[l].content) => lessons'[l].content = lessons[l].content]_vars

\* C2: for one lesson at most one text-generation provider call is made,
\* however the fetches, polls and the pre-generation task overlap.
C2_AtMostOneProviderCall ==
  \A l \in LessonIds : Cardinality(Callers(l)) <= 1

\* C3: a fetch that read non-sentinel content changes nothing in the store,
\* spawns no task and, when it answers 200, returns the content it read; a
\* task whose start-of-task check reads non-sentinel content ends there,
\* without a provider call or a write; a finished task does nothing more.
C3_GeneratedIsNoOp ==
  [][/\ (req'.pc = "read" /\ req.pc # "read")
          => req'.lesson = lessons[clientLesson] /\ store' = store /\ task' = task
     /\ (req.pc = "read" /\ req'.pc = "done" /\ ~IsSentinel(req.lesson.content))
          => /\ store' = store /\ task' = task
             /\ req'.resp.status = 200 => req'.resp = ContentResp(req.lesson.content)
     /\ \A t \in TaskIds :
          /\ ( /\ task[t].pc = "check" /\ task'[t].pc # "check" /\ ~task'[t].err
               /\ task[t].lessonId \in DOMAIN lessons
               /\ ~IsSentinel(lessons[task[t].lessonId].content) )
               => task'[t].pc = "done" /\ ~task'[t].called /\ store' = store
          /\ task[t].pc = "done" => task'[t] = task[t]]_vars

\* C3 witness: a fetch has returned generated content and a task has stopped
\* at its start-of-task check
C3_Witness ==
  /\ req.pc = "done" /\ req.resp.status = 200 /\ ~req.resp.isGenerating
  /\ req.resp.content \in {Texts[1], Texts[2]}
  /\ \E t \in TaskIds : task[t].pc = "done" /\ ~task[t].called /\ ~task[t].err

\* C4: the response is sent before the spawned work has run: a fetch that
\* read the sentinel answers with the pending indicator in the step that
\* spawns its task, whose provider call has not been issued yet; the build
\* answers in the step that spawns the pre-generation and research tasks;
\* no step of a task changes a response that was sent (only the next fetch
\* of the page replaces it).
C4_RespondsBeforeTask ==
  [][/\ ( /\ req.pc = "read" /\ req'.pc = "done" /\ req'.resp.status = 200
          /\ IsSentinel(req.lesson.content) )
          => /\ req'.resp = PendingResp
             /\ \E t \in FetchTasks :
                  /\ task[t].pc = "unspawned"
                  /\ task'[t].pc = "check" /\ ~task'[t].called
     /\ (build.pc = "spawn" /\ build'.pc = "done")
          => /\ build'.resp.status = 200
             /\ task'[PreGen].pc \in {"unspawned", "check"}
             /\ rtask'.pc \in {"unspawned", "create"}
             /\ store' = store
     /\ (req.pc = "done" /\ req' # req) => task' = task /\ rtask' = rtask
     /\ build.pc = "done" => build' = build]_vars

\* C4 witness: the pending response and the build response are out while
\* the provider calls of the spawned tasks are still in flight
C4_Witness ==
  /\ req.pc = "done" /\ req.resp = PendingResp
  /\ \E t \in FetchTasks : task[t].pc = "calling"
  /\ build.resp.status = 200 /\ task[PreGen].pc = "calling"
  /\ rtask.pc = "researching"

\* a generation task for the page's lesson holds text returned by the provider
TextReturned ==
  \E t \in TaskIds :
    task[t].pc = "write" /\ task[t].got = "text" /\ task[t].lessonId = clientLesson

\* the lesson is generated, the page holds generated content received
\* without the pending indicator, and no fetch is in flight
Settled ==
  /\ clientLesson \in DOMAIN lessons
  /\ ~IsSentinel(lessons[clientLesson].content)
  /\ client.data = "ready" /\ ~ShouldPoll(client.data)
  /\ req.pc = "done" /\ req.resp.status = 200
  /\ ~req.resp.isGenerating /\ ~IsSentinel(req.resp.content)
  /\ client.content = req.resp.content

\* C5: under fair scheduling with a working store, once the page polls a
\* pending lesson and a provider call for it has returned text, the content
\* becomes non-sentinel, a fetch returns it without the pending indicator,
\* and from then on the page no longer polls.
C5_PollingConverges ==
  (client.data = "pending" /\ TextReturned) ~> []Settled

\* C5 witness: the page polled while a fetch-spawned task generated, and now
\* holds the stored content
C5_Witness ==
  /\ Settled
  /\ \E t \in FetchTasks : task[t].wrote
  /\ client.content = lessons[clientLesson].content

\* C6: a task whose provider call fails ends in that step without writing
\* and without starting anything else; a finished task never runs again; a
\* fetch-spawned task starts only in the response step of a fetch, and the
\* pre-generation task only in the build.
C6_ProviderFailureNoWriteNoRetry ==
  [][\A t \in TaskIds :
       /\ (task[t].pc = "calling" /\ task'[t].got = "error")
            => /\ task'[t].pc = "done" /\ ~task'[t].wrote
               /\ lessons' = lessons
               /\ \A u \in TaskIds \ {t} : task'[u] = task[u]
       /\ task[t].pc = "done" => task'[t] = task[t]
       /\ (task[t].pc = "unspawned" /\ task'[t].pc # "unspawned")
            => IF t = PreGen THEN build.pc = "spawn"
                             ELSE req.pc = "read" /\ req'.pc = "done"]_vars

\* C6 witness: a provider call failed and the lesson still holds the sentinel
C6_Witness ==
  \E t \in TaskIds :
    /\ task[t].pc = "done" /\ task[t].got = "error" /\ ~task[t].wrote
    /\ task[t].lessonId \in DOMAIN lessons
    /\ lessons[task[t].lessonId].content = PENDING_GENERATION

\* C7: a task whose provider call returned a non-text first block leaves the
\* lesson's content as it is (at the sentinel), so that a later fetch
\* generates again.
C7_UnusableOutputKeepsSentinel ==
  [][\A t \in TaskIds :
       (task[t].pc = "write" /\ task[t].got = "nontext") => lessons' = lessons]_vars

\* C8: no error of a background task escapes it (the host stays up), and a
\* step of a task other than its spawn changes no request, response or
\* page state.
C8_TaskErrorsContained ==
  [][/\ hostUp'
     /\ ( /\ task' # task \/ rtask' # rtask
          /\ ~(req.pc = "read" /\ req'.pc = "done")
          /\ build.pc # "spawn" )
          => UNCHANGED <<req, client, build, del>>]_vars

\* C8 witness: a lesson task and the research task both failed, the latter
\* inside its catch block (the row was never marked failed), after the
\* responses went out
C8_Witness ==
  /\ hostUp /\ build.resp.status = 200 /\ req.resp = PendingResp
  /\ \E t \in TaskIds : task[t].pc = "done" /\ task[t].err
  /\ rtask.pc = "done" /\ rtask.err
  /\ ResearchId \in DOMAIN research /\ research[ResearchId].status = "generating"

\* C9: whatever is in flight when the course is deleted, no error escapes
\* and the store never holds a lesson or research row of a missing course.
C9_NoRowOfDeletedCourse ==
  /\ hostUp
  /\ \A l \in DOMAIN lessons : lessons[l].courseId \in DOMAIN courses
  /\ \A r \in DOMAIN research : research[r].courseId \in DOMAIN courses

\* C9 witness: the course was deleted, then a lesson task and the research
\* task performed their final writes, which matched no row
C9_Witness ==
  /\ del.resp.status = 200 /\ courses = <<>> /\ lessons = <<>> /\ research = <<>>
  /\ \E t \in TaskIds :
       task[t].pc = "done" /\ task[t].called /\ ~task[t].wrote /\ ~task[t].err
  /\ rtask.pc = "done" /\ rtask.calls = 1 /\ ~rtask.err

\* C10: the status of a research row only moves pending -> generating ->
\* completed or pending -> generating -> failed, and the research call is
\* started at most once.
C10_ResearchStatusTransitions ==
  [][/\ \A r \in DOMAIN research \cap DOMAIN research' :
          \/ research'[r].status = research[r].status
          \/ <<research[r].status, research'[r].status>> \in
               { <<"pending", "generating">>, <<"generating", "completed">>,
                 <<"generating", "failed">> }
     /\ rtask'.calls <= 1]_vars

MarkersIn(text) ==
  { ParseInt(SubSeq(text, i + 1, j - 1)) :
      <<i, j>> \in { q \in (1..Len(text)) \X (1..Len(text)) :
                       /\ q[2] > q[1] + 1
                       /\ text[q[1]] = "[" /\ text[q[2]] = "]"
                       /\ \A m \in (q[1] + 1)..(q[2] - 1) : IsDigit(text[m]) } }

\* the research the task read was completed
ReadCompleted == IsRow(citeTask.research) /\ citeTask.research.status = "completed"

\* the entries of the persisted citation map
PersistedEntries == Range(citeLesson.citationMap.json)

\* C12: with a citation array of length k read by the task, every key of the
\* persisted citation map is a marker with 1 <= marker <= k and maps to the
\* url of array entry marker-1; every marker [N] of the text with
\* 1 <= N <= k is a key; markers outside 1..k (such as [0]) are no keys.
C12_CitationMapInRange ==
  (citeLesson.written /\ ReadCompleted) =>
    LET citations == citeTask.research.citations
        k == Len(citations)
        persisted == citeLesson.citationMap
    IN  /\ persisted # Null =>
             \A e \in PersistedEntries :
               /\ e[1] \in 1..k
               /\ e[2] = citations[e[1]].url
               /\ e[1] \in MarkersIn(citeLesson.content)
        /\ \A N \in MarkersIn(citeLesson.content) :
             N \in 1..k => /\ persisted # Null
                           /\ \E e \in PersistedEntries : e[1] = N

\* C12 witness: a text with the markers [1], [0] and [9] over one citation,
\* persisted with the single key 1
C12_Witness ==
  /\ citeLesson.written /\ ReadCompleted
  /\ Len(citeTask.research.citations) = 1
  /\ {0, 1} \subseteq MarkersIn(citeLesson.content)
  /\ citeLesson.citationMap # Null
  /\ {e[1] : e \in PersistedEntries} = {1}

\* C13: the persisted citation map is null whenever the research the task
\* read was not completed or the text has no marker, and it is never an
\* empty object.
C13_NullOrNonEmpty ==
  citeLesson.written =>
    /\ (~ReadCompleted \/ MarkersIn(citeLesson.content) = {})
         => citeLesson.citationMap = Null
    /\ citeLesson.citationMap # Null => PersistedEntries # {}

\* C14: the prompt labels the citation at 0-based position i as [i+1], and
\* every persisted marker N maps to the url of the one entry labelled [N] in
\* the prompt of the same task, whatever happened to the research row since.
C14_NumberingSelfConsistent ==
  /\ \A j \in DOMAIN citeTask.sources : citeTask.sources[j].label = (j - 1) + 1
  /\ (citeLesson.written /\ citeLesson.citationMap # Null) =>
       \A e \in PersistedEntries :
         /\ \E j \in DOMAIN citeTask.sources :
              citeTask.sources[j].label = e[1] /\ citeTask.sources[j].url = e[2]
         /\ \A j \in DOMAIN citeTask.sources :
              citeTask.sources[j].label = e[1] => citeTask.sources[j].url = e[2]

\* C14 witness: two sources with different urls were labelled, the text
\* cites both, and the map holds both
C14_Witness ==
  /\ citeLesson.written /\ citeLesson.citationMap # Null
  /\ Len(citeTask.sources) = 2
  /\ citeTask.sources[1].url # citeTask.sources[2].url
  /\ {e[1] : e \in PersistedEntries} = {1, 2}

\* the feedback block of a prompt (what stands between its fixed parts), and
\* the feedback entries a block lists, in the order it lists them
FeedbackBlock(prompt) == SubSeq(prompt, 2, Len(prompt) - 1)

EntriesOf(block) == [i \in 1..(Len(block) \div 2) |-> block[2 * i]]

\* the texts of the min(3, n) most recent of the n rows of the table, oldest
\* first (the i-th submission has id i and text FeedbackTexts[i])
MostRecentThree ==
  LET n == Cardinality(lessonFeedback)
      m == IF n < 3 THEN n ELSE 3
  IN  [i \in 1..m |-> FeedbackTexts[n - m + i]]

\* C15: the feedback a task reads for a course with n entries is exactly the
\* min(3, n) most recent entries, oldest first, and nothing when n = 0; the
\* prompt it then composes carries exactly that block.
C15_FeedbackWindow ==
  [][\A t \in FbTaskIds :
       /\ (fbTask[t].pc = "feedback" /\ fbTask'[t].pc = "research")
            => /\ EntriesOf(fbTask'[t].feedbackContext) = MostRecentThree
               /\ Len(EntriesOf(fbTask'[t].feedbackContext)) <= 3
               /\ lessonFeedback = {} <=> fbTask'[t].feedbackContext = <<>>
       /\ (fbTask[t].pc = "research" /\ fbTask'[t].pc = "calling")
            => /\ Len(fbTask'[t].prompt) >= 2
               /\ EntriesOf(FeedbackBlock(fbTask'[t].prompt))
                    = EntriesOf(fbTask[t].feedbackContext)
               /\ fbTask[t].feedbackContext = <<>>
                    => fbTask'[t].prompt = <<PromptHead, PromptTail>>]_vars

\* C15 witness: five entries were saved and a prompt lists the last three
C15_Witness ==
  /\ Cardinality(lessonFeedback) = 5
  /\ \E t \in FbTaskIds :
       /\ fbTask[t].pc = "calling"
       /\ EntriesOf(FeedbackBlock(fbTask[t].prompt)) = <<"f3", "f4", "f5">>

\* C16: a task reads the feedback table once, at its start; what it read
\* then is what its prompt carries, and a submission saved later changes
\* neither the task's feedback, nor its prompt, nor its result.
C16_FeedbackReadAtStart ==
  [][\A t \in FbTaskIds :
       /\ (fbTask[t].pc = "feedback" /\ fbTask'[t].pc = "research")
            => \A r \in lessonFeedback :
                 r.id > Cardinality(lessonFeedback) - 3
                   => \E i \in DOMAIN fbTask'[t].feedbackContext :
                        fbTask'[t].feedbackContext[i] = r.feedback
       /\ fbTask[t].pc \in {"research", "calling", "done"}
            => fbTask'[t].feedbackContext = fbTask[t].feedbackContext
       /\ (fbTask[t].pc = "research" /\ fbTask'[t].pc = "calling")
            => FeedbackBlock(fbTask'[t].prompt) = fbTask[t].feedbackContext
       /\ fbTask[t].pc \in {"calling", "done"} => fbTask'[t].prompt = fbTask[t].prompt
       /\ (fbTask[t].pc = "calling" /\ fbTask'[t].result # Null)
            => fbTask'[t].result = [answers |-> fbTask[t].prompt]
       /\ fbTask[t].pc = "done" => fbTask'[t] = fbTask[t]
       /\ lessonFeedback' # lessonFeedback => fbTask' = fbTask]_vars

\* C16 witness: one task read a single entry and is answered for a prompt
\* with that entry alone, although two more were saved meanwhile; the other
\* task, started later, carries all three
C16_Witness ==
  /\ Cardinality(lessonFeedback) = 3
  /\ \E t, u \in FbTaskIds :
       /\ fbTask[t].pc = "done" /\ fbTask[t].result # Null
       /\ EntriesOf(FeedbackBlock(fbTask[t].result.answers)) = <<"f1">>
       /\ fbTask[u].pc = "calling"
       /\ EntriesOf(FeedbackBlock(fbTask[u].prompt)) = <<"f1", "f2", "f3">>

\* the session numbers of the stored lessons of the course
SessionNumbers == {lessons[l].sessionNumber : l \in DOMAIN lessons}

\* C17: when the build answers 200 for an outline with N sessions, the store
\* holds exactly one course, with totalLessons = N, and exactly N lessons of
\* it, every one with the sentinel content.
C17_BuildCreatesCourseAndLessons ==
  build.resp.status = 200 =>
    /\ DOMAIN courses = {CourseId}
    /\ courses[CourseId].totalLessons = Len(outline.sessions)
    /\ Cardinality(DOMAIN lessons) = Len(outline.sessions)
    /\ \A l \in DOMAIN lessons :
         lessons[l].courseId = CourseId /\ lessons[l].content = PENDING_GENERATION
    /\ \A t \in TaskIds : ~task[t].called

\* C17 witness: the outline with twenty sessions was built
C17_Witness ==
  /\ build.resp.status = 200 /\ Len(outline.sessions) = MaxBuildSessions
  /\ Cardinality(DOMAIN lessons) = MaxBuildSessions
  /\ courses[CourseId].totalLessons = MaxBuildSessions

\* what the outline has to satisfy: 1..20 sessions, each with a non-empty
\* title and a positive integer sessionNumber
SessionsWellFormed(o) ==
  /\ Len(o.sessions) \in 1..MaxBuildSessions
  /\ \A i \in 1..Len(o.sessions) :
       o.sessions[i].title # "" /\ o.sessions[i].sessionNumber \in Nat \ {0}

\* C18: for every outline with N sessions that the build accepted, the
\* session numbers of the stored lessons are exactly 1..N, one lesson each
\* (stated here for the accepted outlines whose sessions each have a title
\* and a positive sessionNumber).
C18_SessionNumbersContiguous ==
  (build.resp.status = 200 /\ SessionsWellFormed(outline)) =>
    /\ SessionNumbers = 1..Len(outline.sessions)
    /\ \A l, m \in DOMAIN lessons :
         lessons[l].sessionNumber = lessons[m].sessionNumber => l = m

\* C19: an outline whose sessions are not well formed is answered 400, and
\* no course, no lesson and no background task is created for it.
C19_MalformedOutlineRejected ==
  (~SessionsWellFormed(outline) /\ build.pc # "idle") =>
    /\ build.resp.status = 400
    /\ courses = <<>> /\ lessons = <<>>
    /\ rtask.pc = "unspawned" /\ \A t \in TaskIds : task[t].pc = "unspawned"

\* the state of the outline conversation: Built once a build has succeeded,
\* AwaitingTopic while no outline is stored, AwaitingApproval otherwise
ConvState(c) ==
  IF \E i \in DOMAIN c.messages : c.messages[i].content = "Your course is ready!"
    THEN "Built"
    ELSE IF c.currentOutline = Null THEN "AwaitingTopic" ELSE "AwaitingApproval"

LastMessage(c) == c.messages[Len(c.messages)]

\* C20: the conversation only moves AwaitingTopic -> AwaitingApproval (on an
\* outline response, which is stored) and AwaitingApproval -> Built (on a
\* build of the stored outline that succeeds); a question response stores no
\* outline and is appended to the messages and the transcript; feedback in
\* AwaitingApproval requests a revision with the original topic, the stored
\* outline and the feedback, and the outline answered replaces the stored
\* one; no build is requested without a stored outline; a stored outline is
\* never cleared; after a successful build no request is issued.
C20_ConversationTransitions ==
  [][/\ \/ ConvState(conv') = ConvState(conv)
        \/ /\ ConvState(conv) = "AwaitingTopic" /\ ConvState(conv') = "AwaitingApproval"
           /\ previewReq # Null /\ previewReq' = Null
           /\ LastMessage(conv').outline = conv'.currentOutline
        \/ /\ ConvState(conv) = "AwaitingApproval" /\ ConvState(conv') = "Built"
           /\ buildReq # Null /\ buildReq' = Null
           /\ buildReq.outline = conv.currentOutline
     /\ (previewReq # Null /\ previewReq' = Null /\ LastMessage(conv').outline = Null)
          => /\ conv'.currentOutline = conv.currentOutline
             /\ LastMessage(conv').content \in Questions
                  => /\ Len(conv'.messages) = Len(conv.messages) + 1
                     /\ conv'.conversationHistory = conv.conversationHistory \o
                          <<[who |-> "Assistant", text |-> LastMessage(conv').content]>>
     /\ conv'.currentOutline # conv.currentOutline
          => /\ previewReq # Null /\ previewReq' = Null
             /\ conv'.currentOutline = LastMessage(conv').outline
             /\ conv'.currentOutline # Null
     /\ (previewReq = Null /\ previewReq' # Null)
          => /\ buildReq = Null /\ ConvState(conv) # "Built"
             /\ previewReq'.topic = conv'.messages[2].content
             /\ IF ConvState(conv) = "AwaitingApproval"
                  THEN /\ previewReq'.previousOutline = conv.currentOutline
                       /\ previewReq'.feedback = LastMessage(conv').content
                       /\ LastMessage(conv').role = "user"
                  ELSE previewReq'.previousOutline = Null /\ previewReq'.feedback = Null
     /\ (buildReq = Null /\ buildReq' # Null)
          => /\ previewReq = Null
             /\ ConvState(conv) = "AwaitingApproval"
             /\ buildReq'.outline = conv.currentOutline
     /\ ConvState(conv) = "Built"
          => /\ previewReq' = Null /\ buildReq' = Null
             /\ conv'.currentOutline = conv.currentOutline]_vars

\* C20 witness: a question was answered, an outline was proposed and then
\* revised on feedback, a first build failed and the second one succeeded
C20_Witness ==
  /\ ConvState(conv) = "Built" /\ conv.page = "course"
  /\ \E i \in DOMAIN conv.messages : conv.messages[i].content \in Questions
  /\ \E i, j \in DOMAIN conv.messages :
       /\ i < j /\ conv.messages[i].outline # Null /\ conv.messages[j].outline # Null
       /\ conv.messages[i].outline # conv.messages[j].outline
  /\ \E i \in DOMAIN conv.messages :
       conv.messages[i].content = "Sorry, I had trouble building the course."

\* the end of the balanced structure opened at i: the position of the brace
\* that closes it, or 0
RECURSIVE BalancedEnd(_, _, _)
BalancedEnd(t, i, depth) ==
  IF i > Len(t) THEN 0
  ELSE IF t[i] = "{" THEN BalancedEnd(t, i + 1, depth + 1)
  ELSE IF t[i] = "}" THEN IF depth = 1 THEN i ELSE BalancedEnd(t, i + 1, depth - 1)
  ELSE BalancedEnd(t, i + 1, depth)

\* the first balanced top-level structure of a text, or Null
FirstBalanced(t) ==
  LET first == IndexOf(t, "{") + 1 IN
  IF first = 0 \/ BalancedEnd(t, first, 0) = 0 THEN Null
  ELSE [str |-> SubSeq(t, first, BalancedEnd(t, first, 0))]

\* C25: when the first balanced top-level structure of the text is a
\* well-formed JSON object, extractJSON returns the parse of that object,
\* whatever precedes or follows it.
C25_ExtractsFirstBalanced ==
  (extracted # Null /\ FirstBalanced(providerText) # Null
     /\ JsonParse(FirstBalanced(providerText).str) # SyntaxError)
    => extracted = JsonParse(FirstBalanced(providerText).str)


\* the step in which the page receives the response of its preview request
PreviewReceived == preview # IdlePreview /\ preview' = IdlePreview

\* the provider call of the request served failed, or its text is not JSON
ProviderFailed ==
  \/ "threw" \in DOMAIN preview.answer
  \/ "content" \in DOMAIN preview.answer
  \/ extractJSON(preview.answer.text) = SyntaxError

\* C21: when a preview or revision request fails (its response is an error,
\* as it is whenever the provider call fails or its text cannot be parsed),
\* the page appends the error message, stops generating and keeps the stored
\* outline, or its absence, exactly as it was when the request was sent; the
\* conversation is in the state it was in and every non-blank input can be
\* submitted again.
C21_FailedPreviewKeepsState ==
  [][(PreviewReceived /\ (ProviderFailed \/ ~ResponseOk(preview.resp.status)))
       => /\ ~ResponseOk(preview.resp.status)
          /\ conv'.messages = Append(conv.messages,
               Message("assistant", "Sorry, I had trouble processing that.", Null))
          /\ conv'.currentOutline = conv.currentOutline
          /\ conv'.currentOutline = previewReq.previousOutline
          /\ ConvState(conv') = ConvState(conv)
          /\ previewReq' = Null /\ ~conv'.isGenerating
          /\ \A input \in Inputs :
               ~FalsyString(Trim(input))
                 => SubmitEnabled(conv', input) /\ HandleSubmitProceeds(conv', input)]_vars

\* C21 witness: a revision request has failed and the outline proposed
\* before it is still the stored one
C21_Witness ==
  /\ previewReq = Null /\ preview = IdlePreview
  /\ LastMessage(conv).content = "Sorry, I had trouble processing that."
  /\ conv.currentOutline # Null
  /\ conv.messages[Len(conv.messages) - 2].outline = conv.currentOutline

\* an outline with a title, a description and a non-empty sessions array
\* numbered 1, 2, ...
WellFormedOutline(v) ==
  /\ Truthy(Get(v, "title")) /\ Truthy(Get(v, "description"))
  /\ IsArray(Get(v, "sessions")) /\ Get(v, "sessions").arr # <<>>
  /\ \A i \in DOMAIN Get(v, "sessions").arr :
       Get(Get(v, "sessions").arr[i], "sessionNumber") = [num |-> i]

\* C22: every outline the preview endpoint returns on the revision path, and
\* the page then stores, has a title, a description and a non-empty sessions
\* array with sequential sessionNumbers.
C22_RevisedOutlineWellFormed ==
  [][(PreviewReceived /\ ~IsNull(previewReq.previousOutline)
        /\ ResponseOk(preview.resp.status))
       => WellFormedOutline(preview.resp.body)
            /\ WellFormedOutline(conv'.currentOutline)]_vars


\* C23: for every user and lesson at most one lesson_progress row exists,
\* after any interleaving of completion calls.
C23_OneProgressRowPerLesson ==
  \A i, j \in DOMAIN lessonProgress :
    (/\ lessonProgress[i].userId = lessonProgress[j].userId
     /\ lessonProgress[i].lessonId = lessonProgress[j].lessonId) => i = j

\* the user has a completed progress record for every lesson of the course
AllLessonsCompleted(rows) ==
  \A l \in 1..TotalLessons :
    \E i \in DOMAIN rows :
      rows[i].userId = Owner /\ rows[i].lessonId = l /\ rows[i].isCompleted

\* C27: the completion flag of the course is set only in a state where the
\* owner has a completed progress record for every lesson of the course, and
\* once set it is never reset.
C27_CompletedOnlyWhenAllLessonsAre ==
  [][/\ (courseCompleted' /\ ~courseCompleted) => AllLessonsCompleted(lessonProgress')
     /\ courseCompleted => courseCompleted']_vars


\* C24 as stated: a request of a user who does not own the course, made
\* while the course and the lesson exist, is answered 403 (unless a store
\* call throws) and has no effect.
C24_ForeignRequestDenied ==
  [][\A a \in AccessIds :
       (/\ access[a].pc # "done" /\ access'[a].pc = "done"
        /\ access'[a].userId # Owner
        /\ IsRow(GetCourse(CourseId)) /\ IsRow(GetLesson(1)))
         => /\ access'[a].resp.status \in {403, 500}
            /\ effects' = effects]_vars

\* C24 amended: a request of a user who does not own the course does nothing
\* after the ownership check (no store write, no provider call, no task), is
\* never answered with success, and is answered 403 when it reached the
\* ownership check and the course it read exists; a feedback or expand
\* request with an invalid body is answered 400 before any lookup.
C24_ForeignRequestDeniedWithoutEffect ==
  /\ \A x \in effects : x.userId = Owner
  /\ \A a \in AccessIds :
       (access[a].pc = "done" /\ access[a].userId # Owner)
         => /\ access[a].resp.status # 200
            /\ IsRow(access[a].course) => access[a].resp.status = 403

\* C24 witness: the course exists, a request of its owner was served, and a
\* request of another user, which read the course, was denied
C24_Witness ==
  /\ IsRow(GetCourse(CourseId))
  /\ \E x \in effects : x.userId = Owner
  /\ \E a \in AccessIds :
       /\ access[a].pc = "done" /\ access[a].userId # Owner
       /\ IsRow(access[a].course) /\ access[a].resp.status = 403


\* C26: on every day on which the scheduler is running when the clock
\* reaches 5:00, runDailyLessonGeneration is called once in hour 5, whatever
\* the minute at which the scheduler was started; it is never called twice
\* on a day.
C26_RunsDailyAtFive ==
  /\ runsToday <= 1
  /\ (clock.hour > GENERATION_HOUR /\ dueToday) => runsToday = 1


\* the stored lessons of a course
LessonsOfCourse(c) == {l \in DOMAIN lessons : lessons[l].courseId = c}

\* C28: after a build request has finished, with the course or with an
\* error, every stored course has exactly totalLessons lessons.
C28_FinishedBuildLeavesWholeCourses ==
  build.pc = "done" =>
    \A c \in DOMAIN courses :
      Cardinality(LessonsOfCourse(c)) = courses[c].totalLessons

\* the row of the feedback log that was written last
LatestFeedback == CHOOSE row \in lessonFeedback : \A other \in lessonFeedback : other.id <= row.id

\* no feedback request is between two of its awaits
FeedbackQuiet == fbReq.pc \in {"idle", "done"} /\ fbParked.pc \in {"idle", "done"}

\* C29: when the feedback submissions for the lesson have finished, the
\* lesson's userFeedback is the text of the most recent entry of the
\* feedback log, and a submission that was answered with success has its
\* entry in the log.
C29_UserFeedbackIsLatestEntry ==
  FeedbackQuiet =>
    /\ lessonFeedback # {} => userFeedback = LatestFeedback.feedback
    /\ \A r \in {fbReq, fbParked} :
         r.resp = [status |-> 200] =>
           \E row \in lessonFeedback : row.feedback = r.feedback

\* the interleaving alone: two submissions that both succeeded
InterleavedFeedbackAgrees ==
  (FeedbackQuiet /\ fbReq.resp = [status |-> 200] /\ fbParked.resp = [status |-> 200]
     /\ Cardinality(lessonFeedback) = 2)
    => userFeedback = LatestFeedback.feedback

\* the outlines the page has received, in the order of their arrival
RECURSIVE ReceivedOutlines(_)
ReceivedOutlines(msgs) ==
  IF msgs = <<>> THEN <<>>
  ELSE LET earlier == ReceivedOutlines(SubSeq(msgs, 1, Len(msgs) - 1))
           last == msgs[Len(msgs)]
       IN  IF last.outline = Null THEN earlier ELSE Append(earlier, last.outline)

\* C30: at most one preview, revision or build request is in flight: never
\* a preview and a build together, and while one is in flight the page
\* issues no other; a build is issued only while no preview or revision is
\* in flight, and with the outline that was received last.
C30_OneRequestInFlight ==
  [][/\ ~(previewReq # Null /\ buildReq # Null)
     /\ ~(previewReq' # Null /\ buildReq' # Null)
     /\ (previewReq # Null \/ buildReq # Null)
          => /\ UserMessages(conv') = UserMessages(conv)
             /\ previewReq' \in {previewReq, Null}
             /\ buildReq' \in {buildReq, Null}
     /\ (buildReq = Null /\ buildReq' # Null)
          => /\ previewReq = Null /\ ~conv.isGenerating
             /\ ReceivedOutlines(conv.messages) # <<>>
             /\ buildReq'.outline =
                  ReceivedOutlines(conv.messages)[Len(ReceivedOutlines(conv.messages))]]_vars

\* C30 witness: a build is in flight for the second of two different
\* outlines, after a failed revision
C30_Witness ==
  /\ buildReq # Null /\ previewReq = Null
  /\ Len(ReceivedOutlines(conv.messages)) = 2
  /\ ReceivedOutlines(conv.messages)[1] # ReceivedOutlines(conv.messages)[2]
  /\ buildReq.outline = ReceivedOutlines(conv.messages)[2]
  /\ \E i \in DOMAIN conv.messages :
       conv.messages[i].content = "Sorry, I had trouble processing that."

=============================================================================
